---- MODULE Spec2Model ----
(***************************************************************************)
(* Model of the repository synchronisation engine of noir-mcp-server:      *)
(* src/utils/git.ts (mirror store, needsReclone, cloneRepo, updateRepo),   *)
(* src/repos/config.ts (pin table) and src/tools/sync.ts (syncRepos), and  *)
(* of its search engine, src/utils/search.ts (searchCode, parseRgOutput,   *)
(* manualSearch).                                                          *)
(*                                                                         *)
(* JavaScript strings that the code inspects character by character        *)
(* (status strings, names, refs, hashes) are sequences of one-character    *)
(* strings, so that startsWith, substring, toLowerCase and includes are    *)
(* computed as the code computes them.  An optional string field that is   *)
(* not set, and the null result of a lookup, are the empty sequence (both  *)
(* are falsy in the code's tests).                                         *)
(***************************************************************************)
EXTENDS Integers, Sequences, FiniteSets, TLC

VARIABLES
    originHead,   \* remote: commit the default branch (origin/HEAD) points at
    reposDir,     \* REPOS_DIR exists on disk
    mirror,       \* mirror store: repository name -> entry on disk
    call,         \* record of the last cloneRepo invocation (observation)
    pc,           \* position of syncRepos: "idle", "loop", "done", "raised";
                  \* "git" / "rg": a call awaits a subprocess that hangs
    request,      \* options of the running / last syncRepos call
    reposToSync,  \* syncRepos: the filtered pins
    results,      \* syncRepos: results collected so far
    invoked,      \* names cloneRepo was invoked for in this syncRepos call
    syncResult,   \* value returned by the last syncRepos call
    disk,         \* the files below REPOS_DIR that a search reads
    search,       \* record of the last search call (observation)
    shell,        \* the last rg command line and what sh made of it
    parse         \* record of the last parseRgOutput call (observation)

vars == <<originHead, reposDir, mirror, call, pc, request, reposToSync,
          results, invoked, syncResult, disk, search, shell, parse>>

----------------------------------------------------------------------------
(* Bounds *)

\* largest number of git operations that fail during one cloneRepo call
MaxFaults == 2
\* longest repos / categories list of a sync request
MaxSel == 2

----------------------------------------------------------------------------
(* Strings *)

Absent == << >>
Null == << >>

S_Cloned == <<"C","l","o","n","e","d"," ">>
S_At == <<" ","@"," ">>
S_Open == <<" ","(">>
S_Sparse == <<","," ","s","p","a","r","s","e",":"," ">>
S_Comma == <<","," ">>
S_Close == <<")">>
S_Updated == <<"U","p","d","a","t","e","d"," ">>
S_FailedToUpdate ==
    <<"F","a","i","l","e","d"," ","t","o"," ","u","p","d","a","t","e"," ">>
S_Colon == <<":"," ">>
S_Error == <<"E","r","r","o","r",":"," ">>
S_error == <<"e","r","r","o","r">>
S_commit == <<"c","o","m","m","i","t">>
S_tag == <<"t","a","g">>
S_branch == <<"b","r","a","n","c","h">>
S_undefined == <<"u","n","d","e","f","i","n","e","d">>
S_Repository == <<"R","e","p","o","s","i","t","o","r","y"," ">>
S_NotCloned == <<" ","i","s"," ","n","o","t"," ","c","l","o","n","e","d">>

UpperChars == <<"A","B","C","D","E","F","G","H","I","J","K","L","M",
                "N","O","P","Q","R","S","T","U","V","W","X","Y","Z">>
LowerChars == <<"a","b","c","d","e","f","g","h","i","j","k","l","m",
                "n","o","p","q","r","s","t","u","v","w","x","y","z">>

\* String.prototype.toLowerCase
toLowerCase(s) ==
    [i \in 1..Len(s) |->
        IF \E k \in 1..26 : UpperChars[k] = s[i]
        THEN LowerChars[CHOOSE k \in 1..26 : UpperChars[k] = s[i]]
        ELSE s[i]]

\* String.prototype.startsWith
startsWith(s, p) == Len(p) <= Len(s) /\ SubSeq(s, 1, Len(p)) = p

\* String.prototype.substring(0, n)
substring0(s, n) == SubSeq(s, 1, IF Len(s) < n THEN Len(s) ELSE n)

\* String.prototype.includes: scan the start positions left to right
RECURSIVE includesFrom(_, _, _)
includesFrom(s, p, i) ==
    IF i + Len(p) - 1 > Len(s) THEN FALSE
    ELSE IF SubSeq(s, i, i + Len(p) - 1) = p THEN TRUE
    ELSE includesFrom(s, p, i + 1)

includes(s, p) == includesFrom(s, p, 1)

\* Array.prototype.join(", ")
RECURSIVE join(_)
join(a) ==
    IF Len(a) = 0 THEN << >>
    ELSE IF Len(a) = 1 THEN a[1]
    ELSE a[1] \o S_Comma \o join(Tail(a))

\* Array.prototype.includes
arrayIncludes(a, x) == \E i \in 1..Len(a) : a[i] = x

----------------------------------------------------------------------------
(* The remote repositories: commits and tags *)

H1 == <<"a","b","c","1","2","3","4","d">>
H2 == <<"a","b","c","1","2","3","4","e">>
H3 == <<"f","f","f","0","0","0","0","a">>
ShortH == <<"a","b","c","1","2","3","4">>

\* full hashes of the commits the remote holds (H1 and H2 share 7 characters)
Hashes == {H1, H2, H3}

V1 == <<"v","1",".","0">>
V2 == <<"v","2","-","e","r","r","o","r">>

\* tags of the remote
RemoteTags == {V1, V2}

\* the commit a remote tag points at
TagTarget(t) == IF t = V1 THEN H1 ELSE H3

\* git rev-parse of a (possibly abbreviated) commit name
Resolve(c) == {h \in Hashes : startsWith(h, c)}

----------------------------------------------------------------------------
(* Pin table (src/repos/config.ts) *)

N_noir == <<"n","o","i","r">>
N_examples == <<"n","o","i","r","-","e","x","a","m","p","l","e","s">>
N_bignum == <<"n","o","i","r","-","b","i","g","n","u","m">>
N_awesome == <<"a","w","e","s","o","m","e","-","n","o","i","r">>
N_nonexistent == <<"n","o","n","e","x","i","s","t","e","n","t">>
B_master == <<"m","a","s","t","e","r">>
B_main == <<"m","a","i","n">>
P_docs == <<"d","o","c","s">>
P_stdlib == <<"n","o","i","r","_","s","t","d","l","i","b">>

RepoCategory == {"core", "libraries", "reference"}

DEFAULT_NOIR_VERSION == V1

\* one entry per category group of the table; the tag is bound later
BASE_REPOS == <<
    [name |-> N_noir, branch |-> B_master, commit |-> Absent,
     sparse |-> <<P_docs, P_stdlib>>, category |-> "core"],
    [name |-> N_examples, branch |-> B_master, commit |-> Absent,
     sparse |-> << >>, category |-> "core"],
    [name |-> N_bignum, branch |-> B_main, commit |-> Absent,
     sparse |-> << >>, category |-> "libraries"],
    [name |-> N_awesome, branch |-> B_main, commit |-> Absent,
     sparse |-> << >>, category |-> "reference"] >>

\* getNoirRepos(version): the version tag only applies to the noir entry
getNoirRepos(version) ==
    LET tag == IF version # Absent THEN version ELSE DEFAULT_NOIR_VERSION
    IN  [i \in 1..Len(BASE_REPOS) |->
            [name |-> BASE_REPOS[i].name,
             branch |-> BASE_REPOS[i].branch,
             tag |-> IF BASE_REPOS[i].name = N_noir THEN tag ELSE Absent,
             commit |-> BASE_REPOS[i].commit,
             sparse |-> BASE_REPOS[i].sparse,
             category |-> BASE_REPOS[i].category]]

NOIR_REPOS == getNoirRepos(Absent)

RepoNames == {BASE_REPOS[i].name : i \in 1..Len(BASE_REPOS)}

\* version strings a caller passes (a tag of the remote, or none)
Versions == {Absent} \cup RemoteTags

\* RepoConfig values cloneRepo is called with directly: pins of the noir
\* repository of every kind (exact commit, tag, branch only), each with and
\* without sparse paths; one pin sets both a commit and a tag
MakePin(c, t, sp) ==
    [name |-> N_noir, branch |-> B_master, tag |-> t, commit |-> c,
     sparse |-> sp, category |-> "core"]

SparseChoices == {<< >>, <<P_docs, P_stdlib>>}

CommitPins ==
    {MakePin(c, Absent, sp) : c \in {ShortH, H1, H2, H3},
                              sp \in SparseChoices}
    \cup {MakePin(H3, V1, << >>)}

TagPins == {MakePin(Absent, t, sp) : t \in RemoteTags, sp \in SparseChoices}

BranchPins == {MakePin(Absent, Absent, sp) : sp \in SparseChoices}

Pins == CommitPins \cup TagPins \cup BranchPins

----------------------------------------------------------------------------
(* Mirror store (src/utils/git.ts) *)

\* nothing at REPOS_DIR/name
NoEntry == [dir |-> FALSE, git |-> FALSE, head |-> Null, tree |-> FALSE,
            sparse |-> << >>]

\* a directory without .git
PartialEntry == [dir |-> TRUE, git |-> FALSE, head |-> Null, tree |-> FALSE,
                 sparse |-> << >>]

\* isRepoCloned: existsSync(join(repoPath, ".git"))
isRepoCloned(m, repoName) == m[repoName].git

\* existsSync(repoPath)
existsRepoPath(m, repoName) == m[repoName].dir

\* git describe --tags --exact-match HEAD
Describe(h) == IF \E t \in RemoteTags : TagTarget(t) = h
               THEN CHOOSE t \in RemoteTags : TagTarget(t) = h
               ELSE Null

----------------------------------------------------------------------------
(* Outcomes of the external operations *)

Ops == {"log", "describe", "rm", "clone", "sparse", "fetch", "checkout",
        "reset", "pull"}

E_network == [isError |-> TRUE,
              message |-> <<"n","e","t","w","o","r","k"," ",
                            "f","a","i","l","u","r","e">>]
E_timeout == [isError |-> FALSE, message |-> <<"t","i","m","e","o","u","t">>]

\* values a failing operation throws: an Error object, or a non-Error value
Thrown == {E_network, E_timeout}

\* what one cloneRepo call meets: the operations that fail, the value they
\* throw, and whether a failed clone or a failed recursive delete leaves a
\* directory without .git behind
Envs ==
    {[fail |-> f, thrown |-> t, leftover |-> l] :
        f \in {x \in SUBSET Ops : Cardinality(x) <= MaxFaults},
        t \in Thrown, l \in BOOLEAN}

NoFault == [fail |-> {}, thrown |-> E_network, leftover |-> FALSE]

\* environments that differ only in a field no operation reads are one
RelevantEnvs ==
    {e \in Envs :
        /\ (e.fail = {} => e.thrown = E_network)
        /\ (e.fail \cap {"clone", "rm"} = {} => e.leftover = FALSE)}

\* the environments of direct cloneRepo calls: one thrown value
GitEnvs == {e \in RelevantEnvs : e.thrown = E_network}

\* the environments of the cloneRepo calls of syncRepos: the network
\* operations fail, with either thrown value
SyncEnvs == {e \in RelevantEnvs : e.fail \subseteq {"clone", "fetch", "pull"}}

\* String(value) / template-literal conversion of a thrown value
String(t) == IF t.isError THEN S_Error \o t.message ELSE t.message

----------------------------------------------------------------------------
(* Lookups (src/utils/git.ts) *)

\* a call's outcome: it either returns value or raises value
Returned(v) == [raised |-> FALSE, value |-> v]
Raised(v) == [raised |-> TRUE, value |-> v]

\* getRepoCommit: null when not cloned or no latest commit; git.log is not
\* guarded, so its failure propagates
getRepoCommit(m, repoName, full, env) ==
    IF ~isRepoCloned(m, repoName) THEN Returned(Null)
    ELSE IF "log" \in env.fail THEN Raised(env.thrown)
    ELSE LET hash == m[repoName].head
         IN  IF hash = Null THEN Returned(Null)
             ELSE Returned(IF full THEN hash ELSE substring0(hash, 7))

\* variant of getRepoTag without trim(): the tag keeps the newline git prints
getRepoTag_untrimmed(m, repoName, env) ==
    IF ~isRepoCloned(m, repoName) THEN Returned(Null)
    ELSE IF "describe" \in env.fail THEN Returned(Null)
    ELSE Returned(Describe(m[repoName].head) \o <<"\n">>)

\* getRepoTag: the tag HEAD is exactly on; a failing describe gives null
getRepoTag(m, repoName, env) ==
    IF ~isRepoCloned(m, repoName) THEN Returned(Null)
    ELSE IF "describe" \in env.fail THEN Returned(Null)
    ELSE Returned(Describe(m[repoName].head))

\* variant of needsReclone without the test of config.tag: the current tag
\* is compared with the pin's tag also when the pin has none
needsReclone_tagAlways(m, config, env) ==
    IF ~isRepoCloned(m, config.name) THEN Returned(TRUE)
    ELSE IF config.commit # Absent THEN
        LET currentCommit == getRepoCommit(m, config.name, TRUE, env)
        IN  IF currentCommit.raised THEN currentCommit
            ELSE Returned(~(/\ currentCommit.value # Null
                            /\ startsWith(currentCommit.value,
                                          substring0(config.commit, 7))))
    ELSE LET currentTag == getRepoTag(m, config.name, env)
         IN  Returned(currentTag.value # config.tag)

\* needsReclone: true when a re-clone is needed
needsReclone(m, config, env) ==
    IF ~isRepoCloned(m, config.name) THEN Returned(TRUE)
    ELSE IF config.commit # Absent THEN
        LET currentCommit == getRepoCommit(m, config.name, TRUE, env)
        IN  IF currentCommit.raised THEN currentCommit
            ELSE Returned(~(/\ currentCommit.value # Null
                            /\ startsWith(currentCommit.value,
                                          substring0(config.commit, 7))))
    ELSE IF config.tag # Absent THEN
        LET currentTag == getRepoTag(m, config.name, env)
        IN  Returned(currentTag.value # config.tag)
    ELSE Returned(FALSE)

\* getReposStatus(configs): cloned and short commit of every pin, in
\* order; a raise of a commit lookup leaves the loop
getReposStatus(m, configs, env) ==
    LET commits == [i \in 1..Len(configs) |->
                       IF isRepoCloned(m, configs[i].name)
                       THEN getRepoCommit(m, configs[i].name, FALSE, env)
                       ELSE Returned(Null)]
    IN  IF \E i \in 1..Len(configs) : commits[i].raised
        THEN Raised(env.thrown)
        ELSE Returned([i \in 1..Len(configs) |->
                          [name |-> configs[i].name,
                           cloned |-> isRepoCloned(m, configs[i].name),
                           commit |-> commits[i].value]])

\* getStatus (src/tools/sync.ts): the status of every pin of NOIR_REPOS
getStatus(m, env) ==
    LET statusMap == getReposStatus(m, NOIR_REPOS, env)
    IN  IF statusMap.raised THEN statusMap
        ELSE Returned([i \in 1..Len(NOIR_REPOS) |->
                          [name |-> NOIR_REPOS[i].name,
                           category |-> NOIR_REPOS[i].category,
                           cloned |-> statusMap.value[i].cloned,
                           commit |-> statusMap.value[i].commit]])

----------------------------------------------------------------------------
(* updateRepo (src/utils/git.ts) *)

\* result of an operation on the mirror: the new mirror, the outcome, the
\* operations it ran in order, and those of them that threw
Done(m, out, ops, failed) ==
    [mirror |-> m, raised |-> out.raised, value |-> out.value, ops |-> ops,
     failed |-> failed]

E_notCloned(repoName) ==
    [isError |-> TRUE, message |-> S_Repository \o repoName \o S_NotCloned]

\* the working tree hard-reset (or pulled) to the remote default branch head
AtOriginHead(e, oh) == [e EXCEPT !.head = oh, !.tree = TRUE]

\* variant of updateRepo without the inner catch: a throwing pull raises
updateRepo_pullRaises(m, repoName, env, oh) ==
    IF ~isRepoCloned(m, repoName)
    THEN Done(m, Raised(E_notCloned(repoName)), << >>, << >>)
    ELSE IF "fetch" \notin env.fail /\ "reset" \notin env.fail
    THEN Done([m EXCEPT ![repoName] = AtOriginHead(@, oh)],
              Returned(S_Updated \o repoName), <<"fetch", "reset">>, << >>)
    ELSE LET tried == IF "fetch" \in env.fail THEN <<"fetch">>
                      ELSE <<"fetch", "reset">>
             first == <<tried[Len(tried)]>>
         IN  IF "pull" \notin env.fail
             THEN Done([m EXCEPT ![repoName] = AtOriginHead(@, oh)],
                       Returned(S_Updated \o repoName), tried \o <<"pull">>,
                       first)
             ELSE Done(m, Raised(env.thrown), tried \o <<"pull">>,
                       first \o <<"pull">>)

\* updateRepo: shallow fetch and hard reset to origin/HEAD; on a throw, a
\* pull; when the pull throws too, a "Failed to update" status
updateRepo(m, repoName, env, oh) ==
    IF ~isRepoCloned(m, repoName)
    THEN Done(m, Raised(E_notCloned(repoName)), << >>, << >>)
    ELSE IF "fetch" \notin env.fail /\ "reset" \notin env.fail
    THEN Done([m EXCEPT ![repoName] = AtOriginHead(@, oh)],
              Returned(S_Updated \o repoName), <<"fetch", "reset">>, << >>)
    ELSE LET tried == IF "fetch" \in env.fail THEN <<"fetch">>
                      ELSE <<"fetch", "reset">>
             first == <<tried[Len(tried)]>>
         IN  IF "pull" \notin env.fail
             THEN Done([m EXCEPT ![repoName] = AtOriginHead(@, oh)],
                       Returned(S_Updated \o repoName), tried \o <<"pull">>,
                       first)
             ELSE Done(m,
                       Returned(S_FailedToUpdate \o repoName \o S_Colon
                                \o String(env.thrown)),
                       tried \o <<"pull">>, first \o <<"pull">>)

----------------------------------------------------------------------------
(* cloneRepo (src/utils/git.ts) *)

\* the commit the pinned ref names at the remote (none when it names none
\* or, for an abbreviated hash, more than one)
RefTarget(config) ==
    IF config.commit # Absent
    THEN (IF Cardinality(Resolve(config.commit)) = 1
          THEN Resolve(config.commit) ELSE {})
    ELSE IF config.tag \in RemoteTags THEN {TagTarget(config.tag)}
    ELSE {}

\* the git operation a step of the fresh checkout runs
StepOp(step) == IF step = "clone-no-checkout" THEN "clone" ELSE step

\* one step of the fresh checkout on entry e: the entry it leaves and
\* whether it raised
doStep(step, e, config, env, oh) ==
    IF step \in {"clone-no-checkout", "clone"} THEN
        IF e.dir THEN [entry |-> e, raised |-> TRUE]
        ELSE IF "clone" \in env.fail
        THEN [entry |-> IF env.leftover THEN PartialEntry ELSE NoEntry,
              raised |-> TRUE]
        ELSE [entry |-> [dir |-> TRUE, git |-> TRUE, head |-> oh,
                         tree |-> (step = "clone"), sparse |-> << >>],
              raised |-> FALSE]
    ELSE IF step = "sparse" THEN
        IF "sparse" \in env.fail THEN [entry |-> e, raised |-> TRUE]
        ELSE [entry |-> [e EXCEPT !.sparse = config.sparse],
              raised |-> FALSE]
    ELSE IF step = "fetch" THEN
        [entry |-> e,
         raised |-> ("fetch" \in env.fail \/ RefTarget(config) = {})]
    ELSE \* checkout
        IF "checkout" \in env.fail \/ RefTarget(config) = {}
        THEN [entry |-> e, raised |-> TRUE]
        ELSE [entry |-> [e EXCEPT !.head = CHOOSE h \in RefTarget(config) :
                                                TRUE,
                                  !.tree = TRUE],
              raised |-> FALSE]

\* run the steps in order until one raises
RECURSIVE runSteps(_, _, _, _, _)
runSteps(steps, e, config, env, oh) ==
    IF steps = << >> THEN [entry |-> e, raised |-> FALSE, ops |-> << >>]
    ELSE LET r == doStep(Head(steps), e, config, env, oh)
         IN  IF r.raised
             THEN [entry |-> r.entry, raised |-> TRUE,
                   ops |-> <<StepOp(Head(steps))>>]
             ELSE LET rest == runSteps(Tail(steps), r.entry, config, env, oh)
                  IN  [entry |-> rest.entry, raised |-> rest.raised,
                       ops |-> <<StepOp(Head(steps))>> \o rest.ops]

\* variant of freshSteps that checks the pinned ref out before fetching it
freshSteps_checkoutFirst(config) ==
    IF Len(config.sparse) > 0 THEN
        IF config.commit # Absent
        THEN <<"clone-no-checkout", "sparse", "checkout", "fetch">>
        ELSE IF config.tag # Absent
        THEN <<"clone-no-checkout", "sparse", "checkout", "fetch">>
        ELSE <<"clone", "sparse">>
    ELSE
        IF config.commit # Absent
        THEN <<"clone-no-checkout", "checkout", "fetch">>
        ELSE IF config.tag # Absent
        THEN <<"clone-no-checkout", "checkout", "fetch">>
        ELSE <<"clone">>

\* the git calls of the fresh checkout, by sparse / commit / tag / branch
freshSteps(config) ==
    IF Len(config.sparse) > 0 THEN
        IF config.commit # Absent
        THEN <<"clone-no-checkout", "sparse", "fetch", "checkout">>
        ELSE IF config.tag # Absent
        THEN <<"clone-no-checkout", "sparse", "fetch", "checkout">>
        ELSE <<"clone", "sparse">>
    ELSE
        IF config.commit # Absent
        THEN <<"clone-no-checkout", "fetch", "checkout">>
        ELSE IF config.tag # Absent
        THEN <<"clone-no-checkout", "fetch", "checkout">>
        ELSE <<"clone">>

\* ref to checkout: commit > tag > branch
refOf(config) ==
    IF config.commit # Absent THEN config.commit
    ELSE IF config.tag # Absent THEN config.tag
    ELSE IF config.branch # Absent THEN config.branch
    ELSE S_undefined

refTypeOf(config) ==
    IF config.commit # Absent THEN S_commit
    ELSE IF config.tag # Absent THEN S_tag
    ELSE S_branch

\* the status a fresh checkout returns
clonedStatus(config) ==
    IF Len(config.sparse) > 0
    THEN S_Cloned \o config.name \o S_At \o refOf(config) \o S_Open
         \o refTypeOf(config) \o S_Sparse \o join(config.sparse) \o S_Close
    ELSE S_Cloned \o config.name \o S_At \o refOf(config) \o S_Open
         \o refTypeOf(config) \o S_Close

\* variant of cloneRepo that removes the directory only when force is set
cloneRepo_removeOnForceOnly(m, config, force, env, oh) ==
    LET versionMismatch == needsReclone(m, config, env)
    IN  IF versionMismatch.raised
        THEN Done(m, versionMismatch, <<"log">>, <<"log">>)
        ELSE
          LET remove == force /\ existsRepoPath(m, config.name)
              m1 == IF remove THEN [m EXCEPT ![config.name] = NoEntry] ELSE m
              pre == IF remove THEN <<"rm">> ELSE << >>
          IN  IF remove /\ "rm" \in env.fail
              THEN Done([m EXCEPT ![config.name] =
                            IF env.leftover THEN PartialEntry ELSE @],
                        Raised(env.thrown), <<"rm">>, <<"rm">>)
              ELSE IF isRepoCloned(m1, config.name)
              THEN LET u == updateRepo(m1, config.name, env, oh)
                   IN  [u EXCEPT !.ops = pre \o <<"update">> \o @]
              ELSE LET r == runSteps(freshSteps(config), m1[config.name],
                                     config, env, oh)
                       m2 == [m1 EXCEPT ![config.name] = r.entry]
                   IN  IF r.raised
                       THEN Done(m2, Raised(env.thrown), pre \o r.ops,
                                 <<r.ops[Len(r.ops)]>>)
                       ELSE Done(m2, Returned(clonedStatus(config)),
                                 pre \o r.ops, << >>)

\* cloneRepo(config, force) on mirror m, meeting env, with the remote's
\* default branch at oh
cloneRepo(m, config, force, env, oh) ==
    LET versionMismatch == needsReclone(m, config, env)
    IN  IF versionMismatch.raised
        THEN Done(m, versionMismatch, <<"log">>, <<"log">>)
        ELSE
          LET remove == (force \/ versionMismatch.value)
                        /\ existsRepoPath(m, config.name)
              m1 == IF remove THEN [m EXCEPT ![config.name] = NoEntry] ELSE m
              pre == IF remove THEN <<"rm">> ELSE << >>
          IN  IF remove /\ "rm" \in env.fail
              THEN Done([m EXCEPT ![config.name] =
                            IF env.leftover THEN PartialEntry ELSE @],
                        Raised(env.thrown), <<"rm">>, <<"rm">>)
              ELSE IF isRepoCloned(m1, config.name)
              THEN LET u == updateRepo(m1, config.name, env, oh)
                   IN  [u EXCEPT !.ops = pre \o <<"update">> \o @]
              ELSE LET r == runSteps(freshSteps(config), m1[config.name],
                                     config, env, oh)
                       m2 == [m1 EXCEPT ![config.name] = r.entry]
                   IN  IF r.raised
                       THEN Done(m2, Raised(env.thrown), pre \o r.ops,
                                 <<r.ops[Len(r.ops)]>>)
                       ELSE Done(m2, Returned(clonedStatus(config)),
                                 pre \o r.ops, << >>)

----------------------------------------------------------------------------
(* syncRepos (src/tools/sync.ts) *)

\* variant of selectRepos that looks at the categories before the names
selectRepos_categoriesFirst(configuredRepos, repoNames, categories) ==
    IF Len(categories) > 0
    THEN SelectSeq(configuredRepos,
                LAMBDA r : arrayIncludes(categories, r.category))
    ELSE IF Len(repoNames) > 0
    THEN SelectSeq(configuredRepos, LAMBDA r : arrayIncludes(repoNames, r.name))
    ELSE SelectSeq(configuredRepos, LAMBDA r : r.category = "core")

\* the pins a request selects: by name, else by category, else core
selectRepos(configuredRepos, repoNames, categories) ==
    IF Len(repoNames) > 0
    THEN SelectSeq(configuredRepos, LAMBDA r : arrayIncludes(repoNames, r.name))
    ELSE IF Len(categories) > 0
    THEN SelectSeq(configuredRepos,
                LAMBDA r : arrayIncludes(categories, r.category))
    ELSE SelectSeq(configuredRepos, LAMBDA r : r.category = "core")

\* status recorded for a repository whose cloneRepo raised
caughtStatus(error) ==
    S_Error \o (IF error.isError THEN error.message ELSE String(error))

\* variant of loopBody without the catch block: a raise of cloneRepo leaves
\* the loop
loopBody_noCatch(m, config, force, env, oh) ==
    LET r == cloneRepo(m, config, force, env, oh)
    IN  [call |-> r,
         propagates |-> r.raised,
         pushed |-> [name |-> config.name,
                     status |-> IF r.raised THEN << >> ELSE r.value]]

\* the body of the loop of syncRepos for one pin: the try block calls
\* cloneRepo, the catch block turns a raise into a status; nothing
\* propagates out of it
loopBody(m, config, force, env, oh) ==
    LET r == cloneRepo(m, config, force, env, oh)
    IN  [call |-> r,
         propagates |-> FALSE,
         pushed |-> [name |-> config.name,
                     status |-> IF r.raised THEN caughtStatus(r.value)
                                ELSE r.value]]

\* variant of allSuccess that compares case-sensitively
allSuccess_caseSensitive(rs) ==
    \A i \in 1..Len(rs) : ~includes(rs[i].status, S_error)

\* results.every((r) => !r.status.toLowerCase().includes("error"))
allSuccess(rs) ==
    \A i \in 1..Len(rs) : ~includes(toLowerCase(rs[i].status), S_error)

M_NoMatch ==
    [text |-> "No repositories matched the specified names or categories",
     length |-> 0]
M_SomeFailed == [text |-> "Some repositories failed to sync", length |-> 0]
M_Synced(n) ==
    [text |-> "Successfully synced ${results.length} repositories to ${REPOS_DIR}",
     length |-> n]

\* variant of emptySelectionResult: what the code after the loop returns for
\* no results
emptySelectionResult_vacuous(effectiveVersion) ==
    [success |-> TRUE, message |-> M_Synced(0), version |-> effectiveVersion,
     repos |-> << >>]

\* the result returned when the selection is empty
emptySelectionResult(effectiveVersion) ==
    [success |-> FALSE, message |-> M_NoMatch, version |-> effectiveVersion,
     repos |-> << >>]

\* the result returned after the loop
finalResult(rs, effectiveVersion) ==
    [success |-> allSuccess(rs),
     message |-> IF allSuccess(rs) THEN M_Synced(Len(rs)) ELSE M_SomeFailed,
     version |-> effectiveVersion,
     repos |-> rs]

effectiveVersionOf(opts) ==
    IF opts.version # Absent THEN opts.version ELSE DEFAULT_NOIR_VERSION

configuredReposOf(opts) ==
    IF opts.version # Absent THEN getNoirRepos(opts.version) ELSE NOIR_REPOS

----------------------------------------------------------------------------
(* Search: strings and regular expressions (src/utils/search.ts) *)

\* most lines of the first file of a tree, and of a matcher output
MaxLines == 3
\* largest maxResults of a search
MaxResults == 2

S_Slash == <<"/">>
S_Newline == <<"\n">>
S_ColonChar == <<":">>

Digits == <<"0","1","2","3","4","5","6","7","8","9">>

\* String(n) of a non-negative integer
RECURSIVE numberToString(_)
numberToString(n) ==
    IF n < 10 THEN <<Digits[n + 1]>>
    ELSE numberToString(n \div 10) \o <<Digits[(n % 10) + 1]>>

isDigit(c) == \E k \in 1..10 : Digits[k] = c

\* parseInt(s, 10) of a string of digits
RECURSIVE parseInt(_)
parseInt(s) ==
    IF Len(s) = 0 THEN 0
    ELSE parseInt(SubSeq(s, 1, Len(s) - 1)) * 10
         + (CHOOSE k \in 0..9 : Digits[k + 1] = s[Len(s)])

isSpace(c) == c \in {" ", "\t", "\r", "\n"}

\* String.prototype.trim
trim(s) ==
    IF \A i \in 1..Len(s) : isSpace(s[i]) THEN << >>
    ELSE LET a == CHOOSE i \in 1..Len(s) :
                      ~isSpace(s[i]) /\ \A j \in 1..(i - 1) : isSpace(s[j])
             b == CHOOSE i \in 1..Len(s) :
                      ~isSpace(s[i]) /\ \A j \in (i + 1)..Len(s) : isSpace(s[j])
         IN  SubSeq(s, a, b)

\* String.prototype.split on a one-character separator
RECURSIVE split(_, _)
split(s, c) ==
    IF \A i \in 1..Len(s) : s[i] # c THEN <<s>>
    ELSE LET k == CHOOSE i \in 1..Len(s) :
                      s[i] = c /\ \A j \in 1..(i - 1) : s[j] # c
         IN  <<SubSeq(s, 1, k - 1)>> \o split(SubSeq(s, k + 1, Len(s)), c)

\* String.prototype.endsWith
endsWith(s, p) ==
    Len(p) <= Len(s) /\ SubSeq(s, Len(s) - Len(p) + 1, Len(s)) = p

\* String.prototype.replace(p, r) for a string p: the first occurrence only
replaceFirst(s, p, r) ==
    IF ~includes(s, p) THEN s
    ELSE LET k == CHOOSE i \in 1..Len(s) :
                      /\ i + Len(p) - 1 <= Len(s)
                      /\ SubSeq(s, i, i + Len(p) - 1) = p
                      /\ \A j \in 1..(i - 1) :
                             SubSeq(s, j, j + Len(p) - 1) # p
         IN  SubSeq(s, 1, k - 1) \o r \o SubSeq(s, k + Len(p), Len(s))

\* the characters of the class [.*+?^${}()|[\]\\]
RegexMeta == {".", "*", "+", "?", "^", "$", "{", "}", "(", ")", "|", "[",
              "]", "\\"}

\* query.replace(/[.*+?^${}()|[\]\\]/g, "\\$&")
RECURSIVE escapeRegExp(_)
escapeRegExp(s) ==
    IF Len(s) = 0 THEN << >>
    ELSE (IF Head(s) \in RegexMeta THEN <<"\\", Head(s)>> ELSE <<Head(s)>>)
         \o escapeRegExp(Tail(s))

\* new RegExp(pattern): the atoms of the pattern, or a SyntaxError.  The
\* patterns are over letters, ".", "[" and backslash escapes: "\c" is the
\* character c, "." is any character of a line, and "[" opens a class that
\* nothing closes, which does not compile
RECURSIVE compileFrom(_, _)
compileFrom(p, i) ==
    IF i > Len(p) THEN [ok |-> TRUE, atoms |-> << >>]
    ELSE IF p[i] = "[" THEN [ok |-> FALSE, atoms |-> << >>]
    ELSE IF p[i] = "\\" THEN
        IF i = Len(p) THEN [ok |-> FALSE, atoms |-> << >>]
        ELSE LET rest == compileFrom(p, i + 2)
             IN  [ok |-> rest.ok,
                  atoms |-> <<[any |-> FALSE, ch |-> p[i + 1]]>>
                            \o rest.atoms]
    ELSE LET rest == compileFrom(p, i + 1)
         IN  [ok |-> rest.ok,
              atoms |-> <<[any |-> (p[i] = "."), ch |-> p[i]]>>
                        \o rest.atoms]

\* new RegExp(pattern, caseSensitive ? "g" : "gi")
RegExp(pattern, caseSensitive) ==
    LET c == compileFrom(pattern, 1)
    IN  [ok |-> c.ok, atoms |-> c.atoms, ignoreCase |-> ~caseSensitive]

\* the atoms of re match s at position pos; "." matches every character
\* but a line terminator
matchesAt(re, s, pos) ==
    /\ pos + Len(re.atoms) - 1 <= Len(s)
    /\ \A k \in 1..Len(re.atoms) :
          \/ re.atoms[k].any /\ s[pos + k - 1] \notin {"\r", "\n"}
          \/ IF re.ignoreCase
             THEN toLowerCase(<<re.atoms[k].ch>>)
                    = toLowerCase(<<s[pos + k - 1]>>)
             ELSE re.atoms[k].ch = s[pos + k - 1]

\* RegExp.prototype.test of a global regular expression: the search starts
\* at lastIndex; a match moves lastIndex behind it, a miss resets it
regexTest(re, s, lastIndex) ==
    IF \E pos \in (lastIndex + 1)..Len(s) : matchesAt(re, s, pos)
    THEN LET first == CHOOSE pos \in (lastIndex + 1)..Len(s) :
                          /\ matchesAt(re, s, pos)
                          /\ \A q \in (lastIndex + 1)..(pos - 1) :
                                 ~matchesAt(re, s, q)
         IN  [found |-> TRUE, lastIndex |-> first - 1 + Len(re.atoms)]
    ELSE [found |-> FALSE, lastIndex |-> 0]

----------------------------------------------------------------------------
(* Search: the files, the matcher and the scan (src/utils/search.ts) *)

REPOS_DIR == <<"/","r">>

\* getRepoPath: join(REPOS_DIR, repoName)
getRepoPath(repoName) == REPOS_DIR \o S_Slash \o repoName

\* absolute path of a file of the tree
FileAbs(f) == REPOS_DIR \o S_Slash \o f.path

\* existsSync(path) for REPOS_DIR and the directories below it
existsSync(tree, path) ==
    /\ tree.exists
    /\ \/ path = REPOS_DIR
       \/ \E i \in 1..Len(tree.files) :
              startsWith(FileAbs(tree.files[i]), path \o S_Slash)

\* path.relative(from, to) for a path to below from
relative(from, to) ==
    IF startsWith(to, from \o S_Slash)
    THEN SubSeq(to, Len(from) + 2, Len(to))
    ELSE to

\* the SearchResult pushed for a matching line
makeResult(filePath, lineNum, content) ==
    LET relativePath == relative(REPOS_DIR, filePath)
    IN  [file |-> relativePath, line |-> lineNum, content |-> trim(content),
         repo |-> split(relativePath, "/")[1]]

\* what one search meets: whether the matcher can run, the order in which
\* it visits the files, and whether the file enumeration throws
SearchEnvs ==
    {[rg |-> "fails", order |-> "forward", globThrows |-> g] :
        g \in BOOLEAN}
    \cup {[rg |-> "runs", order |-> o, globThrows |-> FALSE] :
             o \in {"forward", "reverse"}}

\* Array.prototype.reverse
Reverse(a) == [i \in 1..Len(a) |-> a[Len(a) + 1 - i]]

\* rg -g glob: a glob without a slash is matched against the file name
rgGlobMatches(glob, path) ==
    /\ Len(glob) > 0 /\ Head(glob) = "*"
    /\ endsWith(path, Tail(glob))

\* the lines rg prints for one file: "path:line:content" for every matching
\* line, at most cap of them (-m)
RECURSIVE rgFileOutput(_, _, _, _, _)
rgFileOutput(re, f, i, count, cap) ==
    IF i > Len(f.lines) \/ count >= cap THEN << >>
    ELSE IF regexTest(re, f.lines[i], 0).found
    THEN FileAbs(f) \o S_ColonChar \o numberToString(i) \o S_ColonChar
         \o f.lines[i] \o S_Newline
         \o rgFileOutput(re, f, i + 1, count + 1, cap)
    ELSE rgFileOutput(re, f, i + 1, count, cap)

RECURSIVE rgOutput(_, _, _)
rgOutput(re, files, cap) ==
    IF files = << >> THEN << >>
    ELSE rgFileOutput(re, Head(files), 1, 0, cap)
         \o rgOutput(re, Tail(files), cap)

\* execSync of the rg command line: rg exits with 2 when it cannot run, when
\* the pattern does not compile or when a file cannot be read, and with 1
\* when nothing matches; execSync throws on a non-zero exit
rgMatcher(query, caseSensitive, filePattern, cap, searchPath, tree, env) ==
    LET re == RegExp(query, caseSensitive)
        inScope == SelectSeq(tree.files,
                       LAMBDA f : /\ startsWith(FileAbs(f),
                                                searchPath \o S_Slash)
                                  /\ rgGlobMatches(filePattern, f.path))
        ordered == IF env.order = "reverse" THEN Reverse(inScope)
                   ELSE inScope
    IN  IF \/ env.rg = "fails"
           \/ ~re.ok
           \/ \E i \in 1..Len(inScope) : ~inScope[i].readable
        THEN [raised |-> TRUE, output |-> << >>]
        ELSE LET output == rgOutput(re, ordered, cap)
             IN  [raised |-> (output = << >>), output |-> output]

\* line.match(/^(.+?):(\d+):(.*)$/): the shortest non-empty path that is
\* followed by ":", digits and ":"
parseLine(line) ==
    LET ks == {k \in 2..Len(line) :
                 /\ line[k] = ":"
                 /\ \E m \in (k + 2)..Len(line) :
                        /\ line[m] = ":"
                        /\ \A j \in (k + 1)..(m - 1) : isDigit(line[j])}
    IN  IF ks = {} \/ \E j \in 1..Len(line) : line[j] \in {"\r", "\n"}
        THEN [matched |-> FALSE, filePath |-> << >>, lineNum |-> << >>,
              content |-> << >>]
        ELSE LET k == CHOOSE x \in ks : \A y \in ks : x <= y
                 m == CHOOSE x \in (k + 2)..Len(line) :
                          /\ line[x] = ":"
                          /\ \A j \in (k + 1)..(x - 1) : isDigit(line[j])
             IN  [matched |-> TRUE,
                  filePath |-> SubSeq(line, 1, k - 1),
                  lineNum |-> SubSeq(line, k + 1, m - 1),
                  content |-> SubSeq(line, m + 1, Len(line))]

\* the loop of parseRgOutput
RECURSIVE parseLines(_, _, _)
parseLines(lines, res, maxResults) ==
    IF lines = << >> \/ Len(res) >= maxResults THEN res
    ELSE LET match == parseLine(Head(lines))
         IN  parseLines(Tail(lines),
                        IF match.matched
                        THEN Append(res,
                                    makeResult(match.filePath,
                                               parseInt(match.lineNum),
                                               match.content))
                        ELSE res,
                        maxResults)

\* variant of parseRgOutput that relies on the cap given to rg
parseRgOutput_capOfMatcher(output, maxResults) ==
    parseLines(SelectSeq(split(output, "\n"), LAMBDA l : l # << >>),
               << >>, maxResults * 2)

\* parseRgOutput(output, maxResults)
parseRgOutput(output, maxResults) ==
    parseLines(SelectSeq(split(output, "\n"), LAMBDA l : l # << >>),
               << >>, maxResults)

\* globby pattern of the form **/*suffix, or a plain relative path
globMatches(pattern, rel) ==
    IF startsWith(pattern, <<"*","*","/","*">>)
    THEN endsWith(rel, SubSeq(pattern, 5, Len(pattern)))
    ELSE rel = pattern

\* globbySync(pattern, {cwd, absolute: true}): the files below cwd that
\* match, in the order of the tree; none when cwd does not exist
globbySync(pattern, cwd, tree, env) ==
    IF env.globThrows THEN [raised |-> TRUE, files |-> << >>]
    ELSE [raised |-> FALSE,
          files |-> SelectSeq(tree.files,
                        LAMBDA f : /\ tree.exists
                                   /\ startsWith(FileAbs(f), cwd \o S_Slash)
                                   /\ globMatches(pattern,
                                                  relative(cwd, FileAbs(f))))]

\* variant of searchRegexOf without the inner catch: a query that does not
\* compile stays a failed regular expression
searchRegexOf_noLiteral(query, caseSensitive) ==
    RegExp(query, caseSensitive)

\* the regular expression of manualSearch: the query, or its escaped text
\* when the query does not compile
searchRegexOf(query, caseSensitive) ==
    LET re == RegExp(query, caseSensitive)
    IN  IF re.ok THEN re ELSE RegExp(escapeRegExp(query), caseSensitive)

\* searchRegex.lastIndex after a line was tested: reset to 0
lastIndexAfterTest(t) == 0

\* the loop of manualSearch over the lines of one file, from line i
RECURSIVE scanLines(_, _, _, _, _, _, _)
scanLines(re, f, i, lastIndex, res, tested, maxResults) ==
    IF i > Len(f.lines) \/ Len(res) >= maxResults
    THEN [results |-> res, tested |-> tested, lastIndex |-> lastIndex]
    ELSE LET t == regexTest(re, f.lines[i], lastIndex)
         IN  scanLines(re, f, i + 1, lastIndexAfterTest(t),
                       IF t.found
                       THEN Append(res,
                                   makeResult(FileAbs(f), i, f.lines[i]))
                       ELSE res,
                       Append(tested, <<f.path, i>>), maxResults)

\* the loop of manualSearch over the files; a file that cannot be read is
\* skipped
RECURSIVE scanFiles(_, _, _, _, _, _, _)
scanFiles(re, files, lastIndex, res, opened, tested, maxResults) ==
    IF files = << >> \/ Len(res) >= maxResults
    THEN [raised |-> FALSE, value |-> res, opened |-> opened,
          tested |-> tested]
    ELSE LET f == Head(files)
         IN  IF ~f.readable
             THEN scanFiles(re, Tail(files), lastIndex, res,
                            Append(opened, f.path), tested, maxResults)
             ELSE LET r == scanLines(re, f, 1, lastIndex, res, tested,
                                     maxResults)
                  IN  scanFiles(re, Tail(files), r.lastIndex, r.results,
                                Append(opened, f.path), r.tested,
                                maxResults)

NoScan == [raised |-> FALSE, value |-> << >>, opened |-> << >>,
           tested |-> << >>]

\* variant of manualSearch without the outer catch: an error of the file
\* enumeration leaves manualSearch
manualSearch_noOuterCatch(query, searchPath, filePattern, maxResults, caseSensitive, tree, env) ==
    LET pattern == replaceFirst(filePattern, <<"*",".">>,
                                <<"*","*","/","*",".">>)
        g == globbySync(pattern, searchPath, tree, env)
        searchRegex == searchRegexOf(query, caseSensitive)
    IN  IF g.raised
        THEN [raised |-> TRUE, value |-> << >>, opened |-> << >>,
              tested |-> << >>]
        ELSE IF ~searchRegex.ok THEN NoScan
        ELSE scanFiles(searchRegex, g.files, 0, << >>, << >>, << >>,
                       maxResults)

\* manualSearch: its result, the files it opened and the lines it tested
manualSearch(query, searchPath, filePattern, maxResults, caseSensitive, tree, env) ==
    LET pattern == replaceFirst(filePattern, <<"*",".">>,
                                <<"*","*","/","*",".">>)
        g == globbySync(pattern, searchPath, tree, env)
        searchRegex == searchRegexOf(query, caseSensitive)
    IN  IF g.raised \/ ~searchRegex.ok THEN NoScan
        ELSE scanFiles(searchRegex, g.files, 0, << >>, << >>, << >>,
                       maxResults)

S_DefaultPattern == <<"*",".","n","r">>

\* variant of searchCode without the existsSync test of the scan root
searchCode_noExistsCheck(query, options, tree, env) ==
    LET filePattern == IF options.filePattern = Absent THEN S_DefaultPattern
                       ELSE options.filePattern
        searchPath == IF options.repo # Absent THEN getRepoPath(options.repo)
                      ELSE REPOS_DIR
        rg == rgMatcher(query, options.caseSensitive, filePattern,
                        options.maxResults * 2, searchPath, tree, env)
    IN  IF ~rg.raised
        THEN [raised |-> FALSE,
              value |-> parseRgOutput(rg.output, options.maxResults),
              ran |-> <<"rg">>, opened |-> << >>, tested |-> << >>]
        ELSE manualSearch(query, searchPath, filePattern,
                          options.maxResults, options.caseSensitive, tree,
                          env)
             @@ [ran |-> <<"rg", "manual">>]

\* searchCode(query, options): its result and the implementations it ran
\* (the fields of the scan's result, and ran)
searchCode(query, options, tree, env) ==
    LET filePattern == IF options.filePattern = Absent THEN S_DefaultPattern
                       ELSE options.filePattern
        searchPath == IF options.repo # Absent THEN getRepoPath(options.repo)
                      ELSE REPOS_DIR
    IN  IF ~existsSync(tree, searchPath)
        THEN [raised |-> FALSE, value |-> << >>, ran |-> << >>,
              opened |-> << >>, tested |-> << >>]
        ELSE LET rg == rgMatcher(query, options.caseSensitive, filePattern,
                                 options.maxResults * 2, searchPath, tree,
                                 env)
             IN  IF ~rg.raised
                 THEN [raised |-> FALSE,
                       value |-> parseRgOutput(rg.output,
                                               options.maxResults),
                       ran |-> <<"rg">>, opened |-> << >>,
                       tested |-> << >>]
                 ELSE manualSearch(query, searchPath, filePattern,
                                   options.maxResults,
                                   options.caseSensitive, tree, env)
                      @@ [ran |-> <<"rg", "manual">>]

----------------------------------------------------------------------------
(* Search: the matcher command line (src/utils/search.ts) *)

\* longest query of the command-line runs
MaxQueryLen == 3

\* the backtick character (U+0060)
Backtick == "backtick"

\* the characters of the class of escapeShell with the backtick left out
ShellSpecial_noBacktick == {"\"", "$", "\\", "!"}

\* the characters of the class of escapeShell: double quote, dollar,
\* backtick, backslash, exclamation mark
ShellSpecial == {"\"", "$", Backtick, "\\", "!"}

\* escapeShell: str.replace(/[...]/g, "\\$&"), a backslash before every
\* character of the class
RECURSIVE escapeShell(_)
escapeShell(str) ==
    IF Len(str) = 0 THEN << >>
    ELSE (IF Head(str) \in ShellSpecial THEN <<"\\", Head(str)>>
          ELSE <<Head(str)>>)
         \o escapeShell(Tail(str))

\* Array.prototype.join(" ")
RECURSIVE joinSpace(_)
joinSpace(a) ==
    IF Len(a) = 0 THEN << >>
    ELSE IF Len(a) = 1 THEN a[1]
    ELSE a[1] \o <<" ">> \o joinSpace(Tail(a))

S_rg == <<"r","g">>
S_FlagI == <<"-","i">>
S_FlagN == <<"-","n">>
S_FlagNoHeading == <<"-","-","n","o","-","h","e","a","d","i","n","g">>
S_FlagG == <<"-","g">>
S_FlagM == <<"-","m">>

\* the flags of the rg command: the list with its empty strings filtered
\* out, joined by blanks
rgFlags(filePattern, maxResults, caseSensitive) ==
    joinSpace(SelectSeq(<<IF caseSensitive THEN << >> ELSE S_FlagI,
                          S_FlagN, S_FlagNoHeading, S_FlagG, filePattern,
                          S_FlagM, numberToString(maxResults * 2)>>,
                        LAMBDA f : f # << >>))

\* the command line handed to execSync:
\* rg ${rgFlags} "${escapeShell(query)}" "${searchPath}"
rgCommand(query, filePattern, maxResults, caseSensitive, searchPath) ==
    S_rg \o <<" ">> \o rgFlags(filePattern, maxResults, caseSensitive)
    \o <<" ", "\"">> \o escapeShell(query)
    \o <<"\"", " ", "\"">> \o searchPath \o <<"\"">>

\* the control operators of sh
ShControl == {";", "|", "&", "(", ")", "<", ">", "\n"}

\* the characters a backslash quotes inside double quotes
ShDqEscapable == {"$", Backtick, "\"", "\\", "\n"}

\* what sh makes of a dollar or a backtick at position i: a command substitution for a
\* backtick and for "$(", a parameter expansion for "$" before a letter or
\* "{", the character itself otherwise
shDollar(c, i) ==
    IF c[i] = Backtick THEN "subst"
    ELSE IF i < Len(c) /\ c[i + 1] = "(" THEN "subst"
    ELSE IF i < Len(c)
            /\ (c[i + 1] = "{" \/ \E k \in 1..26 : LowerChars[k] = c[i + 1])
    THEN "expand"
    ELSE "literal"

\* the reader of sh before the first character: position, inside double
\* quotes or not, the word being read, the words read, and what else sh
\* met
ShStart == [i |-> 1, dq |-> FALSE, word |-> << >>, inWord |-> FALSE,
            words |-> << >>, events |-> {}]

\* the words read once the word being read, if any, has ended
shWords(st) == IF st.inWord THEN Append(st.words, st.word) ELSE st.words

\* sh reading the character at position st.i of the command line c:
\* quotes and backslashes quote, a blank outside quotes ends a word, a
\* control operator outside quotes starts another command, a backtick or
\* "$(" a command substitution, a dollar before a name an expansion
shStep(c, st) ==
    LET i == st.i
        put(ch, n) == [st EXCEPT !.i = i + n, !.word = Append(@, ch),
                                 !.inWord = TRUE]
    IN  IF c[i] = "\"" THEN [st EXCEPT !.i = i + 1, !.dq = ~@,
                                       !.inWord = TRUE]
        ELSE IF c[i] = "\\" THEN
            IF i = Len(c) THEN put(c[i], 1)
            ELSE IF ~st.dq \/ c[i + 1] \in ShDqEscapable
            THEN put(c[i + 1], 2)
            ELSE put(c[i], 1)
        ELSE IF c[i] \in {"$", Backtick} THEN
            IF shDollar(c, i) = "literal" THEN put(c[i], 1)
            ELSE [st EXCEPT !.i = i + 1, !.inWord = TRUE,
                            !.events = @ \cup {shDollar(c, i)}]
        ELSE IF ~st.dq /\ c[i] = " " THEN
            [st EXCEPT !.i = i + 1, !.word = << >>, !.inWord = FALSE,
                       !.words = shWords(st)]
        ELSE IF ~st.dq /\ c[i] \in ShControl THEN
            [st EXCEPT !.i = i + 1, !.word = << >>, !.inWord = FALSE,
                       !.words = shWords(st),
                       !.events = @ \cup {"control"}]
        ELSE put(c[i], 1)

\* sh reading the command line c to its end
RECURSIVE shScan(_, _)
shScan(c, st) == IF st.i > Len(c) THEN st ELSE shScan(c, shStep(c, st))

\* sh -c command: the words of the command line read as one simple
\* command, and what else sh met.  A double quote that nothing closes is
\* a syntax error.
sh(command) ==
    LET end == shScan(command, ShStart)
    IN  [ok |-> ~end.dq, words |-> shWords(end), events |-> end.events]

----------------------------------------------------------------------------
(* State machine *)

\* the observation of one cloneRepo invocation
CallOf(config, force, r) ==
    [made |-> TRUE, config |-> config, force |-> force, raised |-> r.raised,
     value |-> r.value, ops |-> r.ops, failed |-> r.failed]

NoCall == [made |-> FALSE, config |-> NOIR_REPOS[1], force |-> FALSE,
           raised |-> FALSE, value |-> << >>, ops |-> << >>,
           failed |-> << >>]

NoRequest == [force |-> FALSE, repos |-> << >>, version |-> Absent,
              categories |-> << >>]

NoResult == [success |-> FALSE, message |-> M_NoMatch, version |-> Absent,
             repos |-> << >>]

\* nothing below REPOS_DIR, which does not exist
NoTree == [exists |-> FALSE, files |-> << >>]

NoOptions == [filePattern |-> Absent, repo |-> Absent, maxResults |-> 0,
              caseSensitive |-> FALSE]

NoSearch == [made |-> FALSE, direct |-> FALSE, query |-> << >>,
             options |-> NoOptions, root |-> << >>,
             env |-> [rg |-> "fails", order |-> "forward",
                      globThrows |-> FALSE],
             raised |-> FALSE,
             value |-> << >>, ran |-> << >>, opened |-> << >>,
             tested |-> << >>]

NoShell == [made |-> FALSE, query |-> << >>, options |-> NoOptions,
            searchPath |-> << >>, escaped |-> << >>, command |-> << >>,
            parsed |-> [ok |-> TRUE, words |-> << >>, events |-> {}]]

NoParse == [made |-> FALSE, lines |-> << >>, maxResults |-> 0,
            output |-> << >>, value |-> << >>]

Init ==
    /\ originHead = H3
    /\ reposDir = FALSE
    /\ mirror = [n \in RepoNames |-> NoEntry]
    /\ call = NoCall
    /\ pc = "idle"
    /\ request = NoRequest
    /\ reposToSync = << >>
    /\ results = << >>
    /\ invoked = << >>
    /\ syncResult = NoResult
    /\ disk = NoTree
    /\ search = NoSearch
    /\ shell = NoShell
    /\ parse = NoParse

\* a caller invokes cloneRepo(config, force) and it runs to its end
CloneRepo(config, force, env) ==
    /\ pc # "loop"
    /\ LET r == cloneRepo(mirror, config, force, env, originHead)
       IN  /\ mirror' = r.mirror
           /\ call' = CallOf(config, force, r)
    /\ reposDir' = TRUE
    /\ pc' = "idle"
    /\ UNCHANGED <<originHead, request, reposToSync, results, invoked,
                   syncResult, disk, search,
                   shell, parse>>

\* syncRepos(opts) up to its first await: selection and the empty-selection
\* return
SyncStart(opts) ==
    /\ pc # "loop"
    /\ request' = opts
    /\ results' = << >>
    /\ invoked' = << >>
    /\ LET sel == selectRepos(configuredReposOf(opts), opts.repos,
                              opts.categories)
       IN  /\ reposToSync' = sel
           /\ IF Len(sel) = 0
              THEN /\ pc' = "done"
                   /\ syncResult' =
                        emptySelectionResult(effectiveVersionOf(opts))
              ELSE /\ pc' = "loop"
                   /\ syncResult' = NoResult
    /\ UNCHANGED <<originHead, reposDir, mirror, call, disk, search,
                   shell, parse>>

\* one iteration of the loop of syncRepos; the last one also builds the
\* returned result; an exception leaving the loop body would leave syncRepos
SyncStep(env) ==
    /\ pc = "loop"
    /\ LET config == reposToSync[Len(results) + 1]
           b == loopBody(mirror, config, request.force, env, originHead)
           rs == Append(results, b.pushed)
       IN  /\ mirror' = b.call.mirror
           /\ call' = CallOf(config, request.force, b.call)
           /\ invoked' = Append(invoked, [name |-> config.name,
                                          raised |-> b.call.raised,
                                          value |-> b.call.value])
           /\ IF b.propagates
              THEN /\ pc' = "raised"
                   /\ UNCHANGED <<results, syncResult>>
              ELSE /\ results' = rs
                   /\ IF Len(rs) = Len(reposToSync)
                      THEN /\ pc' = "done"
                           /\ syncResult' =
                                finalResult(rs, effectiveVersionOf(request))
                      ELSE /\ pc' = "loop"
                           /\ UNCHANGED syncResult
    /\ reposDir' = TRUE
    /\ UNCHANGED <<originHead, request, reposToSync, disk, search,
                   shell, parse>>

\* all lists of length at most n over a set of choices
RECURSIVE ListsUpTo(_, _)
ListsUpTo(choices, n) ==
    IF n = 0 THEN {<< >>}
    ELSE ListsUpTo(choices, n - 1)
         \cup {Append(l, c) : l \in ListsUpTo(choices, n - 1), c \in choices}

\* the sync requests of the orchestration runs
SyncRequests ==
    {[force |-> f, repos |-> rn, version |-> v, categories |-> << >>] :
        f \in BOOLEAN,
        rn \in {<< >>, <<N_bignum>>, <<N_nonexistent>>,
                <<N_bignum, N_nonexistent>>},
        v \in {Absent, V2}}

\* the sync requests of the selection runs
SelectRequests ==
    {[force |-> FALSE, repos |-> rn, version |-> v, categories |-> cs] :
        rn \in ListsUpTo({N_noir, N_examples, N_bignum, N_nonexistent},
                         MaxSel),
        v \in Versions,
        cs \in ListsUpTo(RepoCategory, MaxSel)}

CloneCalls == \E config \in Pins, force \in BOOLEAN, env \in GitEnvs :
                  CloneRepo(config, force, env)

SyncStarts == \E opts \in SyncRequests : SyncStart(opts)

SyncSteps == \E env \in SyncEnvs : SyncStep(env)

SelectStarts == \E opts \in SelectRequests : SyncStart(opts)

\* the lines of the files: "ab", " AB" followed by a carriage return (other
\* case, after a blank, a line of a file with CRLF line ends), "x[a." and
\* "[ab"
L_ab == <<"a","b">>
L_AB == <<" ","A","B","\r">>
L_lit == <<"x","[","a",".">>
L_cls == <<"[","a","b">>

LineChoices == {L_ab, L_AB, L_lit, L_cls}

F_a == <<"n","o","i","r","/","a",".","n","r">>
F_b == <<"n","o","i","r","-","b","i","g","n","u","m","/","b",".","n","r">>
F_c == <<"n","o","i","r","/","c",".","m","d">>
F_d == <<"n","o","i","r","-","b","i","g","n","u","m","/","d",".","n","r">>

\* what a tree holds after its first file: nothing, a file that cannot be
\* read (alone, or followed by a readable one), a second repository's file,
\* or a file the glob does not select
LaterFiles ==
    {<< >>,
     <<[path |-> F_b, lines |-> <<L_ab>>, readable |-> FALSE]>>,
     <<[path |-> F_b, lines |-> <<L_ab>>, readable |-> FALSE],
       [path |-> F_d, lines |-> <<L_ab>>, readable |-> TRUE]>>,
     <<[path |-> F_b, lines |-> <<L_cls, L_ab>>, readable |-> TRUE]>>,
     <<[path |-> F_c, lines |-> <<L_ab>>, readable |-> TRUE]>>}

\* the trees a search runs on: no REPOS_DIR, an empty REPOS_DIR, and
\* noir/a.nr with one to MaxLines lines followed by the later files
Trees ==
    {NoTree, [exists |-> TRUE, files |-> << >>]}
    \cup {[exists |-> TRUE,
           files |-> <<[path |-> F_a, lines |-> ls, readable |-> TRUE]>>
                     \o later] :
             ls \in ListsUpTo(LineChoices, MaxLines) \ {<< >>},
             later \in LaterFiles}

\* the queries: "ab", "a." (any character after a), and "[a" and "[a."
\* (an unterminated class)
Q_ab == <<"a","b">>
Q_any == <<"a",".">>
Q_lit == <<"[","a">>
Q_litdot == <<"[","a",".">>

Queries == {Q_ab, Q_any, Q_lit, Q_litdot}

\* the options of the searches: every maxResults and case choice over the
\* whole of REPOS_DIR, and searches scoped to one repository
SearchOptions ==
    {[filePattern |-> Absent, repo |-> Absent, maxResults |-> n,
      caseSensitive |-> c] : n \in 0..MaxResults, c \in BOOLEAN}
    \cup {[filePattern |-> Absent, repo |-> r, maxResults |-> MaxResults,
           caseSensitive |-> FALSE] : r \in {N_noir, N_nonexistent}}

\* scan roots of direct manualSearch calls
ScanRoots == {REPOS_DIR, getRepoPath(N_nonexistent)}

\* the start of a search run: any tree, no search made yet
InitSearch ==
    /\ originHead = H3
    /\ reposDir = FALSE
    /\ mirror = [n \in RepoNames |-> NoEntry]
    /\ call = NoCall
    /\ pc = "idle"
    /\ request = NoRequest
    /\ reposToSync = << >>
    /\ results = << >>
    /\ invoked = << >>
    /\ syncResult = NoResult
    /\ disk \in Trees
    /\ search = NoSearch
    /\ shell = NoShell
    /\ parse = NoParse

\* a caller invokes searchCode(query, options); searchCode keeps no state,
\* so a run makes one call
SearchCode(query, options, env) ==
    /\ ~search.made
    /\ LET r == searchCode(query, options, disk, env)
       IN  search' = r @@ [made |-> TRUE, direct |-> FALSE,
                           query |-> query, options |-> options,
                           root |-> IF options.repo # Absent
                                    THEN getRepoPath(options.repo)
                                    ELSE REPOS_DIR,
                           env |-> env]
    /\ UNCHANGED <<originHead, reposDir, mirror, call, pc, request,
                   reposToSync, results, invoked, syncResult, disk,
                   shell, parse>>

\* a caller invokes manualSearch(query, searchPath, "*.nr", maxResults,
\* caseSensitive) directly
ManualSearch(query, searchPath, options, env) ==
    /\ ~search.made
    /\ LET r == manualSearch(query, searchPath, S_DefaultPattern,
                             options.maxResults, options.caseSensitive,
                             disk, env)
       IN  search' = r @@ [made |-> TRUE, direct |-> TRUE,
                           query |-> query, options |-> options,
                           root |-> searchPath, env |-> env,
                           ran |-> <<"manual">>]
    /\ UNCHANGED <<originHead, reposDir, mirror, call, pc, request,
                   reposToSync, results, invoked, syncResult, disk,
                   shell, parse>>

SearchCalls == \E query \in Queries, options \in SearchOptions,
                  env \in SearchEnvs :
                   SearchCode(query, options, env)

ManualCalls == \E query \in Queries, searchPath \in ScanRoots,
                  options \in {o \in SearchOptions :
                                  /\ o.repo = Absent
                                  /\ o.maxResults = MaxResults},
                  g \in BOOLEAN :
                   ManualSearch(query, searchPath, options,
                                [rg |-> "fails", order |-> "forward",
                                 globThrows |-> g])

\* the characters of the queries of the command-line runs: the characters
\* escapeShell treats, a letter, a blank and two control operators of sh
ShellChars == {"\"", "$", Backtick, "\\", "!", "a", "(", ";", " "}

Q_rm == <<"$","(","r","m"," ","-","r","f"," ","/",")">>

\* every query of at most MaxQueryLen characters, and $(rm -rf /)
ShellQueries == ListsUpTo(ShellChars, MaxQueryLen) \cup {Q_rm}

P_md == <<"*",".","m","d">>
P_semicolon == <<"*",".","n","r",";","a">>
P_blank == <<"*",".","n","r"," ","-","a">>

\* the options of the command-line runs: the default, and for two queries
\* every glob (none, *.md, one with ";", one with a blank), scope and case
CommandInputs ==
    {[query |-> q,
      options |-> [filePattern |-> Absent, repo |-> Absent,
                   maxResults |-> MaxResults, caseSensitive |-> FALSE]] :
        q \in ShellQueries}
    \cup {[query |-> q,
           options |-> [filePattern |-> fp, repo |-> r,
                        maxResults |-> MaxResults, caseSensitive |-> c]] :
             q \in {Q_ab, Q_rm},
             fp \in {Absent, P_md, P_semicolon, P_blank},
             r \in {Absent, N_noir}, c \in BOOLEAN}

\* searchCode(query, options) over an existing scan root reaches execSync:
\* the command line it builds and what sh makes of it; searchCode keeps no
\* state, so a run makes one call
ExecRg(query, options) ==
    /\ ~shell.made
    /\ LET filePattern == IF options.filePattern = Absent
                          THEN S_DefaultPattern ELSE options.filePattern
           searchPath == IF options.repo # Absent
                         THEN getRepoPath(options.repo) ELSE REPOS_DIR
           command == rgCommand(query, filePattern, options.maxResults,
                                options.caseSensitive, searchPath)
       IN  shell' = [made |-> TRUE, query |-> query, options |-> options,
                     searchPath |-> searchPath,
                     escaped |-> escapeShell(query), command |-> command,
                     parsed |-> sh(command)]
    /\ UNCHANGED <<originHead, reposDir, mirror, call, pc, request,
                   reposToSync, results, invoked, syncResult, disk, search,
                   parse>>

ExecCalls == \E input \in CommandInputs : ExecRg(input.query, input.options)

\* a line of matcher output as rg prints it for a match: the path, the
\* line number and the text of the line, with colons between them
rgLine(path, num, content) ==
    [wellFormed |-> TRUE,
     text |-> path \o S_ColonChar \o numberToString(num) \o S_ColonChar
              \o content,
     path |-> path, num |-> num, content |-> content]

\* a line of output that is no match line
otherLine(text) ==
    [wellFormed |-> FALSE, text |-> text, path |-> << >>, num |-> 0,
     content |-> << >>]

L_colons == <<" ","a",":","1",":","b"," ">>
L_abCR == <<"a","b","\r">>
L_noNumber == <<"/","r","/","n","o","i","r","/","a",".","n","r",":","x",
                ":","a","b">>

\* the lines of the outputs: matches of "ab", of a text with ":1:" in it
\* and of a text that ends in a carriage return (a line of a file with
\* CRLF line ends); a blank line, a line without colons and a line whose
\* line number is no number
OutputLines ==
    {rgLine(FileAbs([path |-> F_a]), 1, L_ab),
     rgLine(FileAbs([path |-> F_b]), 12, L_colons),
     rgLine(FileAbs([path |-> F_a]), 2, L_abCR),
     otherLine(<< >>), otherLine(L_ab), otherLine(L_noNumber)}

\* the output of rg: every line followed by a newline
RECURSIVE outputOf(_)
outputOf(lines) ==
    IF lines = << >> THEN << >>
    ELSE Head(lines).text \o S_Newline \o outputOf(Tail(lines))

\* a caller invokes parseRgOutput(output, maxResults); parseRgOutput keeps
\* no state, so a run makes one call
ParseRgOutput(lines, maxResults) ==
    /\ ~parse.made
    /\ parse' = [made |-> TRUE, lines |-> lines, maxResults |-> maxResults,
                 output |-> outputOf(lines),
                 value |-> parseRgOutput(outputOf(lines), maxResults)]
    /\ UNCHANGED <<originHead, reposDir, mirror, call, pc, request,
                   reposToSync, results, invoked, syncResult, disk, search,
                   shell>>

ParseCalls == \E lines \in ListsUpTo(OutputLines, MaxLines),
                 maxResults \in 0..MaxResults :
                  ParseRgOutput(lines, maxResults)

\* the git subprocesses of cloneRepo, updateRepo and the lookups
HangOps == {"log", "describe", "clone", "sparse", "fetch", "checkout",
            "reset", "pull"}

\* what the calls of the runs with hanging subprocesses meet besides the
\* hang: the fetch or the reset of an update throws, or nothing does
HangEnvs ==
    {[fail |-> f, thrown |-> E_network, leftover |-> FALSE] :
        f \in {{}, {"fetch"}, {"reset"}}}

\* cloneRepo(config, force) starts the git subprocess hang: the run of the
\* call up to that subprocess is its run up to the point where the
\* subprocess would throw
reachesOp(m, config, force, env, hang, oh) ==
    IF hang = "describe"
    THEN /\ isRepoCloned(m, config.name)
         /\ config.commit = Absent /\ config.tag # Absent
    ELSE LET r == cloneRepo(m, config, force,
                            [env EXCEPT !.fail = @ \cup {hang}], oh)
         IN  \E i \in 1..Len(r.failed) : r.failed[i] = hang

\* a caller invokes cloneRepo(config, force) while the git subprocess
\* hang, if the call starts it, never exits: simpleGit() is created without
\* a timeout, so the await of that subprocess never settles and the call
\* stays at it; a call that does not start it runs to its end
CloneRepoHang(config, force, env, hang) ==
    /\ pc = "idle"
    /\ LET r == cloneRepo(mirror, config, force,
                          [env EXCEPT !.fail = (@ \cup {hang}) \ {"describe"}],
                          originHead)
       IN  IF reachesOp(mirror, config, force, env, hang, originHead)
           THEN /\ pc' = "git"
                /\ mirror' = IF hang = "describe" THEN mirror ELSE r.mirror
                /\ call' = [NoCall EXCEPT !.config = config,
                                          !.force = force,
                                          !.ops = IF hang = "describe"
                                                  THEN <<"describe">>
                                                  ELSE r.ops]
           ELSE /\ pc' = "idle"
                /\ mirror' = r.mirror
                /\ call' = CallOf(config, force, r)
    /\ reposDir' = TRUE
    /\ UNCHANGED <<originHead, request, reposToSync, results, invoked,
                   syncResult, disk, search, shell, parse>>

RgRuns == [rg |-> "runs", order |-> "forward", globThrows |-> FALSE]

\* a caller invokes searchCode(query, options); when the rg subprocess
\* hangs the call stays in execSync, otherwise it runs to its end
SearchCodeHang(query, options, hang) ==
    /\ pc = "idle"
    /\ LET searchPath == IF options.repo # Absent
                         THEN getRepoPath(options.repo) ELSE REPOS_DIR
       IN  IF hang /\ existsSync(disk, searchPath)
           THEN /\ pc' = "rg"
                /\ search' = [NoSearch EXCEPT !.query = query,
                                              !.options = options,
                                              !.root = searchPath,
                                              !.env = RgRuns,
                                              !.ran = <<"rg">>]
           ELSE /\ pc' = "idle"
                /\ search' = searchCode(query, options, disk, RgRuns)
                              @@ [made |-> TRUE, direct |-> FALSE,
                                  query |-> query, options |-> options,
                                  root |-> searchPath, env |-> RgRuns]
    /\ UNCHANGED <<originHead, reposDir, mirror, call, request, reposToSync,
                   results, invoked, syncResult, disk, shell, parse>>

\* the timeout of execSync (30000 ms) ends the hanging rg subprocess:
\* execSync throws and the catch block returns the result of manualSearch
RgTimeout ==
    /\ pc = "rg"
    /\ pc' = "idle"
    /\ search' = manualSearch(search.query, search.root,
                              IF search.options.filePattern = Absent
                              THEN S_DefaultPattern
                              ELSE search.options.filePattern,
                              search.options.maxResults,
                              search.options.caseSensitive, disk, RgRuns)
                  @@ [made |-> TRUE, direct |-> FALSE,
                      query |-> search.query, options |-> search.options,
                      root |-> search.root, env |-> RgRuns,
                      ran |-> <<"rg", "manual">>]
    /\ UNCHANGED <<originHead, reposDir, mirror, call, request, reposToSync,
                   results, invoked, syncResult, disk, shell, parse>>

\* the trees of the runs with hanging subprocesses: no REPOS_DIR, and
\* noir/a.nr with the line "ab"
HangTrees ==
    {NoTree,
     [exists |-> TRUE,
      files |-> <<[path |-> F_a, lines |-> <<L_ab>>, readable |-> TRUE]>>]}

InitHang ==
    /\ originHead = H3
    /\ reposDir = FALSE
    /\ mirror = [n \in RepoNames |-> NoEntry]
    /\ call = NoCall
    /\ pc = "idle"
    /\ request = NoRequest
    /\ reposToSync = << >>
    /\ results = << >>
    /\ invoked = << >>
    /\ syncResult = NoResult
    /\ disk \in HangTrees
    /\ search = NoSearch
    /\ shell = NoShell
    /\ parse = NoParse

\* the pins of the runs with hanging subprocesses: one of each kind
HangPins == {MakePin(H1, Absent, << >>), MakePin(Absent, V1, << >>),
             MakePin(Absent, Absent, << >>)}

CloneHangCalls ==
    \E config \in HangPins, force \in BOOLEAN, env \in HangEnvs,
       hang \in HangOps \cup {"none"} :
        CloneRepoHang(config, force, env, hang)

SearchHangCalls ==
    \E query \in {Q_ab, Q_lit}, hang \in BOOLEAN :
        SearchCodeHang(query,
                       [filePattern |-> Absent, repo |-> Absent,
                        maxResults |-> MaxResults, caseSensitive |-> FALSE],
                       hang)

\* a caller invokes cloneRepo(config, false) again and again for one pin:
\* the first call of the run, or the call after one for the same pin that
\* returned a "Cloned" or "Updated" status
RepeatCloneRepo(config, env) ==
    /\ call.made =>
           /\ call.config = config
           /\ ~call.raised
           /\ startsWith(call.value, S_Cloned)
                  \/ startsWith(call.value, S_Updated)
    /\ CloneRepo(config, FALSE, env)

RepeatCalls ==
    \E config \in Pins, env \in GitEnvs : RepeatCloneRepo(config, env)

\* direct calls of cloneRepo on the mirror
Next == CloneCalls

Spec == Init /\ [][Next]_vars

\* calls of syncRepos, one after the other
NextSync == SyncStarts \/ SyncSteps

SpecSync == Init /\ [][NextSync]_vars

\* the selection of syncRepos over every request
NextSelect == SelectStarts

SpecSelect == Init /\ [][NextSelect]_vars

\* one search over every tree
NextSearch == SearchCalls \/ ManualCalls

SpecSearch == InitSearch /\ [][NextSearch]_vars

\* calls of cloneRepo and searchCode whose subprocess may hang; the event
\* loop runs every step that is ready, and the timer of execSync fires
NextHang == CloneHangCalls \/ SearchHangCalls \/ RgTimeout

SpecHang == InitHang /\ [][NextHang]_vars /\ WF_vars(NextHang)

\* repeated calls of cloneRepo for one pin, the remote unchanged
NextRepeat == RepeatCalls

SpecRepeat == Init /\ [][NextRepeat]_vars

\* one parse of every output
NextParse == ParseCalls

SpecParse == Init /\ [][NextParse]_vars

\* the command lines of the searches
NextCommand == ExecCalls

SpecCommand == Init /\ [][NextCommand]_vars

----------------------------------------------------------------------------
(* Observations used by the properties *)

\* the last cloneRepo call returned a status (it did not raise)
CallReturned == call.made /\ ~call.raised

\* the last cloneRepo call took the update-in-place path
CallUpdated == call.made /\ \E i \in 1..Len(call.ops) : call.ops[i] = "update"

\* the operation op ran during the last cloneRepo call
CallRan(op) == \E i \in 1..Len(call.ops) : call.ops[i] = op

\* the operation op threw during the last cloneRepo call
CallFailed(op) == \E i \in 1..Len(call.failed) : call.failed[i] = op

\* the mirror's current full commit hash and exact tag, as the lookups
\* report them when git answers
CurrentCommit(n) == getRepoCommit(mirror, n, TRUE, NoFault).value
CurrentTag(n) == getRepoTag(mirror, n, NoFault).value

\* a status that reports success: "Cloned ..." or "Updated ..."
SuccessStatus(st) == startsWith(st, S_Cloned) \/ startsWith(st, S_Updated)

----------------------------------------------------------------------------
(* Properties of cloneRepo, checked under Spec *)

\* C1: for every pin with a commit set, whenever cloneRepo returns a status
\* without raising, the mirror's current full commit hash starts with the
\* pin's commit string.
C1_CommitPinReached ==
    (CallReturned /\ call.config.commit # Absent)
        => startsWith(CurrentCommit(call.config.name), call.config.commit)

\* C2: for every pin with a tag set and no commit, whenever cloneRepo
\* returns a status without raising, the mirror's current exact tag equals
\* the pin's tag.
C2_TagPinReached ==
    (CallReturned /\ call.config.commit = Absent /\ call.config.tag # Absent)
        => CurrentTag(call.config.name) = call.config.tag

\* C3: immediately after any successful cloneRepo(pin, force) call,
\* needsReclone(pin) is false for the same pin.
C3_NoRecloneAfterSuccess ==
    (CallReturned /\ SuccessStatus(call.value))
        => ~needsReclone(mirror, call.config, NoFault).value

\* the entry e is a working tree at the pin: checked out, on the pinned
\* commit / tag (or, for a branch pin, on the branch head), sparse paths set
AtPin(e, config, oh) ==
    /\ e.git /\ e.tree
    /\ (Len(config.sparse) > 0 => e.sparse = config.sparse)
    /\ IF config.commit # Absent THEN startsWith(e.head, config.commit)
       ELSE IF config.tag # Absent THEN Describe(e.head) = config.tag
       ELSE e.head = oh

\* C4: after cloneRepo ends, by returning or by raising at any step, the
\* mirror entry for pin.name is either a working tree at the new pin or
\* exactly the state it had before the call.
C4_ReconcileAtomic ==
    [][LET n == call'.config.name
       IN  \/ AtPin(mirror'[n], call'.config, originHead)
           \/ mirror'[n] = mirror[n]]_vars

----------------------------------------------------------------------------
(* Properties of syncRepos, checked under SpecSync and SpecSelect *)

S_ERROR == <<"E","R","R","O","R">>

\* st contains the letters e, r, r, o, r in a row, each in either case
ContainsErrorAnyCase(st) ==
    \E k \in 1..(Len(st) - 4) :
        \A j \in 1..5 : st[k + j - 1] \in {S_error[j], S_ERROR[j]}

\* the message of a thrown value: error.message of an Error object, the
\* value itself otherwise
MessageOf(thrown) == thrown.message

\* syncRepos selected something and returned
SyncReturned == pc = "done" /\ Len(reposToSync) > 0

\* C6: for a non-empty selection the result holds exactly one outcome per
\* selected repository, in selection order, whichever cloneRepo calls
\* raise; a raise becomes that repository's status "Error: <message>",
\* cloneRepo is still invoked for every later selected repository, and
\* syncRepos itself never raises.
C6_PartialFailureIsolation ==
    /\ pc # "raised"
    /\ Len(invoked) = Len(results)
    /\ Len(results) <= Len(reposToSync)
    /\ \A i \in 1..Len(results) :
          /\ invoked[i].name = reposToSync[i].name
          /\ results[i].name = reposToSync[i].name
          /\ IF invoked[i].raised
             THEN results[i].status = S_Error \o MessageOf(invoked[i].value)
             ELSE results[i].status = invoked[i].value
    /\ (SyncReturned =>
          /\ Len(invoked) = Len(reposToSync)
          /\ syncResult.repos = results)

\* C6 witness: the first cloneRepo call of a sync raised, the second was
\* still invoked and returned, and syncRepos returned both outcomes
C6_Witness ==
    /\ SyncReturned /\ Len(syncResult.repos) = 2
    /\ invoked[1].raised /\ ~invoked[2].raised

\* C7: for a non-empty selection, success is true if and only if no status
\* contains "error" compared case-insensitively, and the message is the
\* "Successfully synced N repositories" text exactly when success is true.
C7_SuccessIffNoErrorMarker ==
    SyncReturned =>
        /\ syncResult.success
             <=> \A i \in 1..Len(syncResult.repos) :
                     ~ContainsErrorAnyCase(syncResult.repos[i].status)
        /\ syncResult.success
             <=> syncResult.message = M_Synced(Len(reposToSync))
        /\ ~syncResult.success => syncResult.message = M_SomeFailed

\* C7 witness: a returned status holds "Error" but not "error", and the
\* sync reports failure
C7_Witness ==
    /\ SyncReturned /\ ~syncResult.success
    /\ \E i \in 1..Len(syncResult.repos) :
          /\ startsWith(syncResult.repos[i].status, S_Error)
          /\ ~includes(syncResult.repos[i].status, S_error)

\* the reconcile of one repository actually succeeded: cloneRepo returned,
\* and not with "Failed to update ..."
ReconcileSucceeded(inv) ==
    ~inv.raised /\ ~startsWith(inv.value, S_FailedToUpdate)

\* C8: success is true exactly when every selected repository's reconcile
\* actually succeeded; a failed reconcile always carries the failure marker
\* and a successful one never does.
C8_SuccessReflectsOutcomes ==
    SyncReturned =>
        /\ syncResult.success
             <=> \A i \in 1..Len(invoked) : ReconcileSucceeded(invoked[i])
        /\ \A i \in 1..Len(invoked) :
              ReconcileSucceeded(invoked[i])
                  <=> ~ContainsErrorAnyCase(syncResult.repos[i].status)

\* the pin p is what the request asks for: named in a non-empty repos list;
\* else of a category in a non-empty categories list; else of category core
Requested(p, opts) ==
    IF opts.repos # << >>
    THEN p.name \in {opts.repos[i] : i \in 1..Len(opts.repos)}
    ELSE IF opts.categories # << >>
    THEN p.category \in {opts.categories[i] : i \in 1..Len(opts.categories)}
    ELSE p.category = "core"

\* no configured pin is requested
NothingRequested(opts) ==
    \A i \in 1..Len(configuredReposOf(opts)) :
        ~Requested(configuredReposOf(opts)[i], opts)

\* C9: when the selection filters to no repository, syncRepos returns
\* success = false with an empty repos list and an explanatory message,
\* invokes cloneRepo zero times, and leaves the mirror store unchanged.
C9_EmptySelection ==
    [][(pc # "loop" /\ pc' # "idle" /\ NothingRequested(request'))
          => /\ pc' = "done"
             /\ syncResult'.success = FALSE
             /\ syncResult'.repos = << >>
             /\ syncResult'.message = M_NoMatch
             /\ invoked' = << >>
             /\ call' = call
             /\ mirror' = mirror
             /\ reposDir' = reposDir]_vars

\* C9 witness: a request that selects nothing returned while the mirror
\* holds a clone
C9_Witness ==
    /\ pc = "done" /\ reposToSync = << >> /\ NothingRequested(request)
    /\ syncResult.message = M_NoMatch
    /\ mirror[N_examples].git

\* position of the pin named n in the pin table
TableIndex(table, n) == CHOOSE i \in 1..Len(table) : table[i].name = n

\* C10: a non-empty repos list selects exactly the configured pins named in
\* it, categories being ignored; otherwise a non-empty categories list
\* selects exactly the pins of those categories; otherwise exactly the
\* core pins.  The selected pins keep pin-table order.
C10_Selection ==
    pc # "idle" =>
        LET table == configuredReposOf(request)
        IN  /\ \A i \in 1..Len(table) :
                  Requested(table[i], request)
                      <=> \E j \in 1..Len(reposToSync) :
                              reposToSync[j] = table[i]
            /\ \A j \in 1..Len(reposToSync) :
                  \E i \in 1..Len(table) : table[i] = reposToSync[j]
            /\ \A j, k \in 1..Len(reposToSync) :
                  j < k => TableIndex(table, reposToSync[j].name)
                             < TableIndex(table, reposToSync[k].name)

\* C10 witness: a request with both lists set selected two pins by name,
\* one of a category the categories list does not hold
C10_Witness ==
    /\ pc # "idle"
    /\ Len(request.repos) > 0 /\ Len(request.categories) > 0
    /\ Len(reposToSync) = 2
    /\ \E j \in 1..2 :
          reposToSync[j].category
              \notin {request.categories[i] :
                         i \in 1..Len(request.categories)}

\* the request names a repository that is not in the pin table
NamesUnknown(opts) ==
    \E i \in 1..Len(opts.repos) : opts.repos[i] \notin RepoNames

\* C11: a sync request whose repos list contains a name that is not in the
\* pin table returns success = false with the explanatory message, for
\* every repos list that contains such a name.
C11_UnknownNameFails ==
    (pc = "done" /\ NamesUnknown(request))
        => /\ syncResult.success = FALSE
           /\ syncResult.message = M_NoMatch

----------------------------------------------------------------------------
(* Properties of cloneRepo and needsReclone, checked under Spec *)

\* C12: when force is true and something exists at the mirror path, the
\* call deletes it recursively and then starts a fresh checkout with a
\* clone, never an update in place, whatever the state of the entry.
C12_ForceDeletesThenClones ==
    [][(call'.made /\ call'.force
           /\ existsRepoPath(mirror, call'.config.name))
          => /\ Len(call'.ops) >= 1
             /\ call'.ops[1] = "rm"
             /\ \A i \in 1..Len(call'.ops) : call'.ops[i] # "update"
             /\ (call'.failed # <<"rm">>
                    => Len(call'.ops) >= 2 /\ call'.ops[2] = "clone")]_vars

\* an environment in which only the commit lookup throws
LogFails == [fail |-> {"log"}, thrown |-> E_network, leftover |-> FALSE]

\* C13: for a cloned repository and a pin with a commit set, needsReclone
\* returns false if and only if the mirror's current full commit hash
\* starts with the whole pin commit string, and true otherwise, also when
\* the current hash is unknown because the lookup failed.
C13_WholeCommitPrefix ==
    \A config \in CommitPins :
        isRepoCloned(mirror, config.name) =>
            /\ needsReclone(mirror, config, NoFault)
                 = Returned(~startsWith(CurrentCommit(config.name),
                                        config.commit))
            /\ needsReclone(mirror, config, LogFails) = Returned(TRUE)

\* an environment in which only the tag lookup throws
DescribeFails ==
    [fail |-> {"describe"}, thrown |-> E_network, leftover |-> FALSE]

\* C14: for a cloned repository and a pin with a tag and no commit,
\* needsReclone returns false if and only if HEAD is exactly on a tag and
\* that tag is the pin's tag; it returns true when HEAD is on another tag,
\* when HEAD is on no tag, and when the tag lookup yields none.
C14_ExactTagDecides ==
    \A config \in TagPins :
        isRepoCloned(mirror, config.name) =>
            /\ needsReclone(mirror, config, NoFault)
                 = Returned(Describe(mirror[config.name].head) # config.tag)
            /\ needsReclone(mirror, config, DescribeFails) = Returned(TRUE)

\* C14 witness: a non-forced call for the tag v1.0 found a clone that was
\* not on the tag, deleted it, and left HEAD exactly on v1.0, where
\* needsReclone is false for v1.0 and true for the other tag
C14_Witness ==
    /\ call.made /\ ~call.force /\ ~call.raised /\ CallRan("rm")
    /\ call.config.commit = Absent /\ call.config.tag = V1
    /\ Describe(mirror[N_noir].head) = V1
    /\ ~needsReclone(mirror, MakePin(Absent, V1, << >>), NoFault).value
    /\ needsReclone(mirror, MakePin(Absent, V2, << >>), NoFault).value

\* C15: for a pin with neither commit nor tag, needsReclone is true exactly
\* when the mirror has no .git marker for the name, and false for an
\* existing clone whatever its commit and whatever the lookups would
\* answer; a non-forced cloneRepo never deletes such a clone.
C15_BranchPinNeverReclones ==
    [][/\ \A config \in BranchPins :
             \A env \in {NoFault, LogFails, DescribeFails} :
                 needsReclone(mirror, config, env)
                     = Returned(~isRepoCloned(mirror, config.name))
       /\ (/\ call'.made /\ ~call'.force
           /\ call'.config \in BranchPins
           /\ isRepoCloned(mirror, call'.config.name))
          => /\ \A i \in 1..Len(call'.ops) : call'.ops[i] # "rm"
             /\ call'.ops[1] = "update"
             /\ isRepoCloned(mirror', call'.config.name)]_vars

\* C15 witness: a non-forced call for a branch pin went through an update
\* whose fetch and pull threw; the clone is kept on a commit that is not
\* the branch head
C15_Witness ==
    /\ call.made /\ ~call.force /\ call.config \in BranchPins
    /\ CallUpdated /\ ~CallRan("rm") /\ CallFailed("pull")
    /\ isRepoCloned(mirror, N_noir)
    /\ mirror[N_noir].head = H1 /\ originHead # H1
    /\ ~needsReclone(mirror, call.config, NoFault).value

\* the operation op ran / threw during the cloneRepo call recorded in c
RanIn(c, op) == \E i \in 1..Len(c.ops) : c.ops[i] = op
FailedIn(c, op) == \E i \in 1..Len(c.failed) : c.failed[i] = op

\* C16: updateRepo on a cloned repository never raises.  It pulls only if
\* the fetch or the reset threw; it returns "Updated <name>" if fetch and
\* reset, or else the pull, succeeded, and otherwise a status starting with
\* "Failed to update <name>"; when both attempts fail the mirror's commit
\* is unchanged.
C16_UpdateNeverRaises ==
    [][RanIn(call', "update") =>
         LET c == call'
             n == c.config.name
             firstFailed == FailedIn(c, "fetch") \/ FailedIn(c, "reset")
         IN  /\ isRepoCloned(mirror, n)
             /\ ~c.raised
             /\ RanIn(c, "fetch")
             /\ RanIn(c, "reset") <=> ~FailedIn(c, "fetch")
             /\ RanIn(c, "pull") <=> firstFailed
             /\ IF ~firstFailed \/ ~FailedIn(c, "pull")
                THEN c.value = S_Updated \o n
                ELSE /\ startsWith(c.value, S_FailedToUpdate \o n)
                     /\ mirror'[n].head = mirror[n].head]_vars

\* C16 witness: the reset and then the pull of an update threw; the call
\* returned "Failed to update noir..." and the clone is still on a commit
\* that is not the branch head
C16_Witness ==
    /\ CallUpdated /\ ~CallFailed("fetch") /\ CallFailed("reset")
    /\ CallFailed("pull") /\ ~call.raised
    /\ startsWith(call.value, S_FailedToUpdate \o N_noir)
    /\ mirror[N_noir].head # originHead

\* the last cloneRepo call took the fresh-checkout path for a commit or
\* tag pin
FreshPinned ==
    /\ call.made /\ CallRan("clone")
    /\ (call.config.commit # Absent \/ call.config.tag # Absent)

\* the git operations of the last call after the removal, if any
OpsAfterRm ==
    IF call.ops # << >> /\ call.ops[1] = "rm" THEN Tail(call.ops)
    ELSE call.ops

\* the order of the fresh checkout of a commit or tag pin
PinnedOrder(config) ==
    IF Len(config.sparse) > 0
    THEN <<"clone", "sparse", "fetch", "checkout">>
    ELSE <<"clone", "fetch", "checkout">>

\* the start of the status of a fresh checkout, the ref kind by priority
\* commit > tag
PinnedStatusHead(config) ==
    S_Cloned \o config.name \o S_At
    \o (IF config.commit # Absent THEN config.commit ELSE config.tag)
    \o S_Open
    \o (IF config.commit # Absent THEN S_commit ELSE S_tag)

\* C26: the fresh checkout of a commit or tag pin runs clone (without a
\* checkout), then sparse-checkout set (only for a sparse pin), then the
\* fetch of the pinned ref, then its checkout, each only after the previous
\* one succeeded; no working tree exists before the checkout succeeded, and
\* with it the sparse paths are set; on success the status names the ref
\* kind by priority commit > tag > branch.
C26_FreshCheckoutOrder ==
    FreshPinned =>
        LET config == call.config
            e == mirror[config.name]
            ops == OpsAfterRm
        IN  /\ ops # << >>
            /\ startsWith(PinnedOrder(config), ops)
            /\ \A i \in 1..Len(call.failed) :
                    call.failed[i] = ops[Len(ops)]
            /\ call.raised <=> call.failed # << >>
            /\ call.raised => ~e.tree
            /\ ~call.raised =>
                    /\ ops = PinnedOrder(config)
                    /\ e.tree /\ e.sparse = config.sparse
                    /\ startsWith(call.value, PinnedStatusHead(config))

\* a sparse commit pin is checked out afresh after the removal of a mirror
\* that did not match it
C26_Witness ==
    /\ FreshPinned /\ ~call.raised
    /\ call.ops = <<"rm", "clone", "sparse", "fetch", "checkout">>
    /\ call.config.commit # Absent

\* C28: git clone is only invoked by cloneRepo when nothing exists at the
\* target path: a directory that existed when the call began (with or
\* without .git) has been removed, without a throw, right before the clone,
\* and an entry that is cloned is never cloned over.
C28_CloneOnlyIntoNothing ==
    [][(\E i \in 1..Len(call'.ops) : call'.ops[i] = "clone")
          => LET n == call'.config.name
                 ops == call'.ops
             IN  IF existsRepoPath(mirror, n)
                 THEN /\ Len(ops) >= 2
                      /\ ops[1] = "rm" /\ ops[2] = "clone"
                      /\ \A i \in 1..Len(call'.failed) :
                             call'.failed[i] # "rm"
                 ELSE ops[1] = "clone"]_vars

\* a directory without .git, left by a failed clone, is removed and the
\* branch pin cloned, without force
C28_Witness ==
    /\ CallReturned /\ ~call.force
    /\ call.config.commit = Absent /\ call.config.tag = Absent
    /\ call.ops[1] = "rm" /\ CallRan("clone")

\* environments in which the commit lookup, the tag lookup or both throw
LookupFaults ==
    {[fail |-> f, thrown |-> E_network, leftover |-> FALSE] :
        f \in {{"log"}, {"describe"}, {"log", "describe"}}}

\* C24: for a cloned repository getRepoCommit returns null whenever git
\* log fails and getRepoTag returns null whenever git describe fails;
\* getReposStatus, getStatus and needsReclone never raise because a
\* lookup failed.
C24_LookupsNeverRaise ==
    \A env \in LookupFaults :
        /\ \A n \in RepoNames : \A full \in BOOLEAN :
               (isRepoCloned(mirror, n) /\ "log" \in env.fail)
                   => getRepoCommit(mirror, n, full, env) = Returned(Null)
        /\ \A n \in RepoNames :
               (isRepoCloned(mirror, n) /\ "describe" \in env.fail)
                   => getRepoTag(mirror, n, env) = Returned(Null)
        /\ ~getReposStatus(mirror, NOIR_REPOS, env).raised
        /\ ~getStatus(mirror, env).raised
        /\ \A config \in Pins : ~needsReclone(mirror, config, env).raised

----------------------------------------------------------------------------
(* Properties of the search, checked under SpecSearch *)

\* the scan root of the last search does not exist on disk
RootMissing == ~existsSync(disk, search.root)

\* C17: searchCode over a scan root that does not exist returns an empty
\* sequence without raising and without running the external matcher or
\* the in-process scan; manualSearch called directly on a root that does
\* not exist or is empty returns an empty sequence without raising.
C17_MissingRootIsEmpty ==
    search.made =>
        /\ (~search.direct /\ RootMissing)
              => /\ ~search.raised
                 /\ search.value = << >>
                 /\ search.ran = << >>
                 /\ search.opened = << >> /\ search.tested = << >>
        /\ (search.direct /\ (RootMissing \/ disk.files = << >>))
              => /\ ~search.raised
                 /\ search.value = << >>
                 /\ search.opened = << >>

\* C17 witness: a search for "ab" scoped to a repository that is not on
\* disk returned nothing and ran nothing, although a file of another
\* repository holds the line "ab"
C17_Witness ==
    /\ search.made /\ ~search.direct /\ RootMissing
    /\ search.options.repo = N_nonexistent /\ search.query = Q_ab
    /\ search.options.maxResults > 0
    /\ \E i \in 1..Len(disk.files) :
          disk.files[i].readable /\ disk.files[i].lines[1] = L_ab
    /\ search.value = << >> /\ search.ran = << >>

\* the last search ran the in-process scan
ScanRan == \E i \in 1..Len(search.ran) : search.ran[i] = "manual"

\* the last search returned the output of the external matcher
MatcherAnswered == search.ran = <<"rg">>

\* C18: for every query, tree and maxResults >= 0 a search returns at most
\* maxResults results, on the matcher path and on the scan path; once the
\* scan has collected maxResults matches it tests no further line and
\* opens no further file.
C18_AtMostMaxResults ==
    search.made =>
        LET n == search.options.maxResults
        IN  /\ Len(search.value) <= n
            /\ (ScanRan /\ n = 0)
                  => search.opened = << >> /\ search.tested = << >>
            /\ (ScanRan /\ n > 0 /\ Len(search.value) = n)
                  => LET last == search.value[n]
                     IN  /\ search.tested[Len(search.tested)]
                              = <<last.file, last.line>>
                         /\ search.opened[Len(search.opened)] = last.file

\* C18 witness: a scan with maxResults = 1 stopped at the first line of
\* noir/a.nr, which has further lines, with a second file left unopened
C18_Witness ==
    /\ search.made /\ ScanRan
    /\ search.options.maxResults = 1 /\ Len(search.value) = 1
    /\ search.tested = << <<F_a, 1>> >> /\ search.opened = <<F_a>>
    /\ Len(disk.files) = 2 /\ disk.files[2].path = F_b
    /\ disk.files[2].readable
    /\ Len(disk.files[1].lines) >= 2
    /\ disk.files[1].lines[2] = disk.files[1].lines[1]

S_DotNr == <<".","n","r">>

\* the line matches the query: as a regular expression when the query
\* compiles, and as a substring otherwise; letters compare in lower case
\* unless the search is case sensitive
LineMatches(query, caseSensitive, line) ==
    LET re == RegExp(query, caseSensitive)
    IN  IF re.ok THEN \E pos \in 1..Len(line) : matchesAt(re, line, pos)
        ELSE IF caseSensitive THEN includes(line, query)
        ELSE includes(toLowerCase(line), toLowerCase(query))

\* the matching lines of one file from line i on, in ascending line number
RECURSIVE MatchesOfFile(_, _, _, _)
MatchesOfFile(f, i, query, caseSensitive) ==
    IF i > Len(f.lines) THEN << >>
    ELSE (IF LineMatches(query, caseSensitive, f.lines[i])
          THEN <<[file |-> f.path, line |-> i, content |-> trim(f.lines[i]),
                  repo |-> split(f.path, "/")[1]]>>
          ELSE << >>)
         \o MatchesOfFile(f, i + 1, query, caseSensitive)

\* the matching lines of the files, file after file
RECURSIVE MatchesOf(_, _, _)
MatchesOf(files, query, caseSensitive) ==
    IF files = << >> THEN << >>
    ELSE MatchesOfFile(Head(files), 1, query, caseSensitive)
         \o MatchesOf(Tail(files), query, caseSensitive)

\* the readable *.nr files below the scan root of the last search, in the
\* order in which the implementation that answered enumerated them
ScannedFiles ==
    LET inScope == SelectSeq(disk.files,
                       LAMBDA f : /\ disk.exists /\ f.readable
                                  /\ startsWith(FileAbs(f),
                                                search.root \o S_Slash)
                                  /\ endsWith(f.path, S_DotNr))
    IN  IF MatcherAnswered
        THEN (IF search.env.order = "reverse" THEN Reverse(inScope)
              ELSE inScope)
        ELSE IF search.env.globThrows THEN << >>
        ELSE inScope

\* the matching lines of the tree in the scan order of the last search
AllMatches ==
    MatchesOf(ScannedFiles, search.query, search.options.caseSensitive)

\* C19: a search returns exactly the first min(maxResults, N) of the N
\* matching lines of the tree in scan order (files in enumeration order,
\* lines in ascending line number); on the matcher path the per-file cap
\* of 2 x maxResults removes none of them.
C19_FirstMatchesInScanOrder ==
    search.made =>
        \A all \in {AllMatches} :
            LET n == search.options.maxResults
                k == IF Len(all) < n THEN Len(all) ELSE n
            IN  search.value = SubSeq(all, 1, k)

\* the query of the last search does not compile as a regular expression
QueryIsNoRegex == ~RegExp(search.query, search.options.caseSensitive).ok

\* the line contains the query of the last search as a substring, letters
\* compared in lower case unless the search is case sensitive
ContainsQuery(line) ==
    IF search.options.caseSensitive THEN includes(line, search.query)
    ELSE includes(toLowerCase(line), toLowerCase(search.query))

\* position of a result in the scan order of files: index of its file,
\* line number
PosOf(r, files) ==
    <<CHOOSE a \in 1..Len(files) : files[a].path = r.file, r.line>>

Before(p, q) == p[1] < q[1] \/ (p[1] = q[1] /\ p[2] < q[2])

\* C20: on the scan path a query that does not compile as a regular
\* expression never raises; it is matched as a literal string, and the
\* scan returns exactly the lines that contain the query as a substring
\* (in any case of the letters unless caseSensitive), in scan order, up to
\* maxResults.
C20_InvalidRegexIsLiteral ==
    (search.made /\ ScanRan /\ QueryIsNoRegex) =>
        \A files \in {ScannedFiles} :
            LET n == search.options.maxResults
                v == search.value
            IN  /\ ~search.raised
                /\ Len(v) <= n
                /\ \A j \in 1..Len(v) :
                      \E a \in 1..Len(files) :
                          /\ files[a].path = v[j].file
                          /\ v[j].line \in 1..Len(files[a].lines)
                          /\ ContainsQuery(files[a].lines[v[j].line])
                          /\ v[j].content = trim(files[a].lines[v[j].line])
                /\ \A j \in 1..Len(v) : \A k \in (j + 1)..Len(v) :
                      Before(PosOf(v[j], files), PosOf(v[k], files))
                /\ \A a \in 1..Len(files) :
                      \A i \in 1..Len(files[a].lines) :
                          ContainsQuery(files[a].lines[i]) =>
                              \/ \E j \in 1..Len(v) :
                                     /\ v[j].file = files[a].path
                                     /\ v[j].line = i
                              \/ /\ Len(v) = n
                                 /\ \/ n = 0
                                    \/ Before(PosOf(v[n], files), <<a, i>>)

\* C20 witness: a scan for "[a." over a file whose first line is "[ab" and
\* whose second line is "x[a." returned the second line only
C20_Witness ==
    /\ search.made /\ ScanRan /\ QueryIsNoRegex
    /\ search.query = Q_litdot /\ search.options.maxResults = MaxResults
    /\ Len(disk.files) >= 1 /\ Len(disk.files[1].lines) >= 2
    /\ disk.files[1].lines[1] = L_cls /\ disk.files[1].lines[2] = L_lit
    /\ Len(search.value) >= 1
    /\ search.value[1].file = F_a /\ search.value[1].line = 2

\* the external matcher of the last search failed to run
MatcherFailed == search.env.rg = "fails"

\* the files of the tree below the scan root of the last search that the
\* *.nr glob selects, in the order of the tree
FilesInScope ==
    SelectSeq(disk.files,
        LAMBDA f : /\ disk.exists
                   /\ startsWith(FileAbs(f), search.root \o S_Slash)
                   /\ endsWith(f.path, S_DotNr))

\* the path of a repository that is no longer on disk
GonePath == getRepoPath(N_nonexistent)

\* C21: searchCode never raises.  Whenever the external matcher fails the
\* in-process scan runs and its results are returned; a file that cannot
\* be read yields no result and the scan goes on with the next file; an
\* error of the file enumeration yields an empty result; and over a root
\* that has been deleted the matcher fails and the scan returns an empty
\* sequence.
C21_SearchNeverRaises ==
    search.made =>
        /\ ~search.raised
        /\ (~search.direct /\ ~RootMissing /\ MatcherFailed)
              => search.ran = <<"rg", "manual">>
        /\ (ScanRan /\ search.env.globThrows) => search.value = << >>
        /\ (ScanRan /\ ~search.env.globThrows) =>
              \A files \in {FilesInScope} :
                  /\ \A i \in 1..Len(files) :
                        ~files[i].readable =>
                            /\ \A j \in 1..Len(search.value) :
                                   search.value[j].file # files[i].path
                            /\ \A j \in 1..Len(search.tested) :
                                   search.tested[j][1] # files[i].path
                  /\ Len(search.value) < search.options.maxResults
                        => search.opened
                             = [i \in 1..Len(files) |-> files[i].path]
        /\ rgMatcher(search.query, search.options.caseSensitive,
                     S_DefaultPattern, search.options.maxResults * 2,
                     GonePath, disk, search.env).raised
        /\ \A gone \in {manualSearch(search.query, GonePath,
                                     S_DefaultPattern,
                                     search.options.maxResults,
                                     search.options.caseSensitive, disk,
                                     search.env)} :
               ~gone.raised /\ gone.value = << >>

\* C21 witness: the matcher failed, the scan opened noir/a.nr, then a file
\* that cannot be read, then noir-bignum/d.nr, and returned a match of
\* the first and of the third file
C21_Witness ==
    /\ search.made /\ ~search.direct /\ MatcherFailed /\ ~search.raised
    /\ search.ran = <<"rg", "manual">>
    /\ search.opened = <<F_a, F_b, F_d>>
    /\ ~disk.files[2].readable
    /\ Len(search.value) = 2
    /\ search.value[1].file = F_a /\ search.value[2].file = F_d

\* the external matcher of the last search ran to completion: it could
\* run, the query compiled and every file in scope could be read
MatcherCompleted ==
    /\ search.env.rg = "runs"
    /\ ~QueryIsNoRegex
    /\ \A files \in {FilesInScope} :
           \A i \in 1..Len(files) : files[i].readable

\* C30: the in-process scan runs only when the external matcher is absent
\* or fails; when the matcher runs to completion, with matches or with
\* none, searchCode returns what the matcher reported (an empty sequence
\* for no match) and the scan does not run.
C30_ScanOnlyWhenMatcherFails ==
    (search.made /\ ~search.direct /\ ~RootMissing /\ MatcherCompleted)
        => /\ search.ran = <<"rg">>
           /\ search.opened = << >> /\ search.tested = << >>

----------------------------------------------------------------------------
(* Properties of repeated cloneRepo calls, checked under SpecRepeat *)

\* C27: in a sequence of successful cloneRepo(pin, false) calls for one
\* pin against an unchanging remote, starting from an absent mirror, only
\* the first call deletes or clones; every later call that succeeds takes
\* the update-in-place path.
C27_NoOscillation ==
    [][(/\ call.made
        /\ ~call'.raised
        /\ SuccessStatus(call'.value))
          => /\ \A i \in 1..Len(call'.ops) :
                    call'.ops[i] \notin {"rm", "clone"}
             /\ \E i \in 1..Len(call'.ops) : call'.ops[i] = "update"]_vars

----------------------------------------------------------------------------
(* Properties of the subprocess timeouts, checked under SpecHang *)

\* a call awaits a subprocess that hangs
AwaitsSubprocess == pc \in {"git", "rg"}

\* C23: every blocking external operation is bounded by a timeout: a call
\* of cloneRepo (with its lookups and updateRepo) or of searchCode whose
\* git or rg subprocess hangs still ends.
C23_HangingSubprocessEnds == AwaitsSubprocess ~> pc = "idle"

----------------------------------------------------------------------------
(* Properties of parseRgOutput, checked under SpecParse *)

\* the result of a well-formed line: the path relative to REPOS_DIR, the
\* line number, the trimmed content and the first path segment
ResultOfLine(l) ==
    [file |-> relative(REPOS_DIR, l.path), line |-> l.num,
     content |-> trim(l.content),
     repo |-> split(relative(REPOS_DIR, l.path), "/")[1]]

\* C25: parseRgOutput returns one result per well-formed
\* path:line:content line, in input order, until maxResults results are
\* collected; blank lines and lines that are not of that format give no
\* result and do not count toward maxResults.
C25_OneResultPerWellFormedLine ==
    parse.made =>
        \A wf \in {SelectSeq(parse.lines, LAMBDA l : l.wellFormed)} :
            LET n == IF Len(wf) < parse.maxResults THEN Len(wf)
                     ELSE parse.maxResults
            IN  parse.value = [i \in 1..n |-> ResultOfLine(wf[i])]

----------------------------------------------------------------------------
(* Properties of the matcher command line, checked under SpecCommand *)

\* the characters that must not reach sh unquoted inside double quotes,
\* and the exclamation mark
MustEscape == {"\"", "$", Backtick, "\\", "!"}

\* position in the escaped string of character i of s: i plus the number
\* of characters up to i that get a backslash
EscapedPos(s, i) == i + Cardinality({k \in 1..i : s[k] \in MustEscape})

\* the word sh reads from the double-quoted escaped text of s: s itself,
\* except that "\!" stays "\!" inside double quotes
RECURSIVE AsReadBySh(_)
AsReadBySh(s) ==
    IF Len(s) = 0 THEN << >>
    ELSE (IF Head(s) = "!" THEN <<"\\", "!">> ELSE <<Head(s)>>)
         \o AsReadBySh(Tail(s))

\* the glob of the last command line is a plain *.ext pattern
PlainGlob == shell.options.filePattern \in {Absent, P_md}

\* C22: escapeShell puts exactly one backslash before every double quote,
\* dollar, backtick, backslash and exclamation mark and keeps every other
\* character, in order; hence sh reads the double-quoted query argument
\* of the matcher command as one word that is the query, and meets no
\* command substitution, expansion or control operator in it, for
\* $(rm -rf /) as for every other query.
C22_EscapeShell ==
    shell.made =>
        LET s == shell.query
            e == shell.escaped
        IN  /\ Len(e) = EscapedPos(s, Len(s))
            /\ \A i \in 1..Len(s) :
                  /\ e[EscapedPos(s, i)] = s[i]
                  /\ s[i] \in MustEscape => e[EscapedPos(s, i) - 1] = "\\"
            /\ \A p \in {sh(<<"\"">> \o e \o <<"\"">>)} :
                  /\ p.ok /\ p.events = {}
                  /\ p.words = <<AsReadBySh(s)>>
            /\ PlainGlob =>
                  \A p \in {shell.parsed} :
                      /\ p.ok /\ p.events = {}
                      /\ p.words[1] = S_rg
                      /\ p.words[Len(p.words) - 1] = AsReadBySh(s)
                      /\ p.words[Len(p.words)] = shell.searchPath

\* C22 witness: the query $(rm -rf /) went into the command line as
\* \$(rm -rf /) and sh read it back as the one word $(rm -rf /)
C22_Witness ==
    /\ shell.made /\ shell.query = Q_rm /\ PlainGlob
    /\ shell.escaped = <<"\\">> \o Q_rm
    /\ shell.parsed.ok /\ shell.parsed.events = {}
    /\ shell.parsed.words[Len(shell.parsed.words) - 1] = Q_rm

\* the words of the last command line when each of query, glob and scan
\* root stays one argument
IntendedWords ==
    SelectSeq(<<S_rg,
                IF shell.options.caseSensitive THEN << >> ELSE S_FlagI,
                S_FlagN, S_FlagNoHeading, S_FlagG,
                IF shell.options.filePattern = Absent THEN S_DefaultPattern
                ELSE shell.options.filePattern,
                S_FlagM, numberToString(shell.options.maxResults * 2)>>,
              LAMBDA w : w # << >>)
    \o <<AsReadBySh(shell.query), shell.searchPath>>

\* C29: every caller-supplied string that searchCode embeds in the matcher
\* command (query, glob, scope path) stays one argument of the one rg
\* command: sh reads the command line as rg with exactly the intended
\* arguments and meets no control operator, command substitution or
\* expansion, whatever the strings are.
C29_CommandIsOneRg ==
    shell.made =>
        /\ shell.parsed.ok
        /\ shell.parsed.events = {}
        /\ shell.parsed.words = IntendedWords

====
